---------------------------- MODULE Spec2Model ----------------------------
(***************************************************************************)
(* A model of Urho3D's FileSystem facade (Source/Urho3D/IO/FileSystem.cpp):*)
(* the asynchronous execution queue drained from the frame-begin tick, the *)
(* access gate (allowedPaths_ / CheckAccess) and the gated file operations.*)
(*                                                                         *)
(* Strings are sequences of one-character strings, so that Trimmed,        *)
(* Replace, Find, FindLast and Substring are computed as the code computes *)
(* them.  Positions are 0-based as in the code.                            *)
(*                                                                         *)
(* Five specifications share the variables:                                *)
(*   Spec        the async queue, its workers and the frame-begin drain    *)
(*   LiveSpec    Spec with the fairness of the worker threads and the tick *)
(*   GateSpec    RegisterPath, CheckAccess and the synchronous commands    *)
(*   FacadeSpec  RegisterPath and the gated file operations over a backend *)
(*   MountSpec   LoadIdentity, MountArchive and UnmountArchive             *)
(***************************************************************************)
EXTENDS Integers, Sequences, FiniteSets, TLC

VARIABLES
    allowedPaths_,     \* HashSet<String> allowedPaths_
    nextAsyncExecID_,  \* unsigned nextAsyncExecID_
    asyncExecQueue_,   \* List<AsyncExecRequest*> asyncExecQueue_
    mainpc,            \* position of the main thread: "idle" | "drain" | "destroyed"
    drainPos,          \* HandleBeginFrame's iterator i, as an index into the queue
    events,            \* AsyncExecFinished events sent so far, in order
    accepted,          \* ids returned by accepted async calls, in order of acceptance
    lastCall,          \* the facade call made last: operation, arguments, result
    fsDirs,            \* backend: the directories that exist
    fsFiles,           \* backend: the regular files that exist
    queryPath,         \* GateSpec: the path the caller asks the gate about
    searchPath,        \* backend: the real paths mounted, highest priority first
    writeDir,          \* backend: the write directory, <<>> when none is set
    symLinks,          \* backend: whether symbolic links are permitted
    executeConsoleCommands_,  \* bool executeConsoleCommands_
    consoleSubscribed, \* whether the facade is subscribed to E_CONSOLECOMMAND
    frameSampled       \* what the latest frame-begin tick read: each request and its completed_

vars == <<allowedPaths_, nextAsyncExecID_, asyncExecQueue_, mainpc, drainPos,
          events, accepted, lastCall, fsDirs, fsFiles, queryPath, searchPath, writeDir,
          symLinks, executeConsoleCommands_, consoleSubscribed, frameSampled>>

consoleVars == <<executeConsoleCommands_, consoleSubscribed>>
asyncVars == <<nextAsyncExecID_, asyncExecQueue_, mainpc, drainPos, events, accepted, frameSampled>>
mountVars == <<searchPath, writeDir, symLinks>>
fsVars    == <<fsDirs, fsFiles, queryPath, mountVars>>

-----------------------------------------------------------------------------
(* Bounds *)

\* Width, in bits, of the model's `unsigned` (the request id).
IdBits == 3
\* Async requests accepted in one behaviour.
MaxRequests == 2
\* Longest path string enumerated for the pure path functions.
MaxLen == 4

-----------------------------------------------------------------------------
(* String primitives (Urho3D String), over sequences of characters *)

Chars == {"/", ".", "a", "\\", " "}

RECURSIVE StringsOfLen(_)
StringsOfLen(n) ==
    IF n = 0 THEN {<<>>}
    ELSE {Append(s, c) : s \in StringsOfLen(n - 1), c \in Chars}

Strings == UNION {StringsOfLen(n) : n \in 0..MaxLen}

\* String::NPOS
NPOS == -1

\* String::Substring(pos): the rest of the string from pos; empty when pos is
\* not inside the string (NPOS included).
SubstringFrom(s, pos) ==
    IF pos >= 0 /\ pos < Len(s) THEN SubSeq(s, pos + 1, Len(s)) ELSE <<>>

\* String::Substring(pos, length)
Substring(s, pos, length) ==
    IF pos >= 0 /\ pos < Len(s)
    THEN SubSeq(s, pos + 1, IF pos + length > Len(s) THEN Len(s) ELSE pos + length)
    ELSE <<>>

\* String::Find(const String&): the first position of needle, NPOS when there
\* is none; an empty needle is never found.
Find(s, needle) ==
    IF Len(needle) = 0 \/ Len(needle) > Len(s) THEN NPOS
    ELSE LET hits == {i \in 0..(Len(s) - Len(needle)) :
                         SubSeq(s, i + 1, i + Len(needle)) = needle}
         IN  IF hits = {} THEN NPOS
             ELSE CHOOSE i \in hits : \A j \in hits : i <= j

\* String::Contains(const String&)
Contains(s, needle) == Find(s, needle) # NPOS

\* String::FindLast(char)
FindLast(s, c) ==
    LET hits == {i \in 0..(Len(s) - 1) : s[i + 1] = c}
    IN  IF hits = {} THEN NPOS
        ELSE CHOOSE i \in hits : \A j \in hits : j <= i

\* String::Replaced(char, char) / String::Replace(char, char)
Replaced(s, from, to) == [i \in 1..Len(s) |-> IF s[i] = from THEN to ELSE s[i]]

\* String::Contains(char)
ContainsChar(s, c) == \E i \in 1..Len(s) : s[i] = c

\* String::StartsWith / String::EndsWith: an empty needle is never found.
StartsWith(s, t) == Find(s, t) = 0

EndsWith(s, t) ==
    /\ Len(t) > 0
    /\ Len(t) <= Len(s)
    /\ SubSeq(s, Len(s) - Len(t) + 1, Len(s)) = t

\* String::Trimmed(): leading and trailing whitespace removed.
Trimmed(s) ==
    LET solid == {i \in 1..Len(s) : s[i] # " "}
    IN  IF solid = {} THEN <<>>
        ELSE LET lo == CHOOSE i \in solid : \A j \in solid : i <= j
                 hi == CHOOSE i \in solid : \A j \in solid : j <= i
             IN  SubSeq(s, lo, hi)

\* The segments of a path: its maximal runs of characters other than "/".
RECURSIVE Segments(_)
Segments(s) ==
    IF s = <<>> THEN <<>>
    ELSE LET cut == {i \in 1..Len(s) : s[i] = "/"}
         IN  IF cut = {} THEN <<s>>
             ELSE LET k == CHOOSE i \in cut : \A j \in cut : i <= j
                      rest == Segments(SubSeq(s, k + 1, Len(s)))
                  IN  IF k = 1 THEN rest ELSE <<SubSeq(s, 1, k - 1)>> \o rest

-----------------------------------------------------------------------------
(* Path utilities *)

GetInternalPath(pathName) == Replaced(pathName, "\\", "/")

\* Not a _WIN32 build: the native path is the path itself.
GetNativePath(pathName) == pathName

AddTrailingSlash(pathName) ==
    LET ret == Replaced(Trimmed(pathName), "\\", "/")
    IN  IF ret # <<>> /\ ret[Len(ret)] # "/" THEN Append(ret, "/") ELSE ret

RemoveTrailingSlash(pathName) ==
    LET ret == Replaced(Trimmed(pathName), "\\", "/")
    IN  IF ret # <<>> /\ ret[Len(ret)] = "/" THEN SubSeq(ret, 1, Len(ret) - 1) ELSE ret

\* SplitPath's pathName output (lowercaseExtension only affects the extension).
SplitPathDir(fullPath) ==
    LET copy0   == GetInternalPath(fullPath)
        extPos  == FindLast(copy0, ".")
        pathPos == FindLast(copy0, "/")
        copy1   == IF extPos # NPOS /\ (pathPos = NPOS \/ extPos > pathPos)
                   THEN Substring(copy0, 0, extPos)
                   ELSE copy0
        pos2    == FindLast(copy1, "/")
    IN  IF pos2 # NPOS THEN Substring(copy1, 0, pos2 + 1) ELSE <<>>

GetPath(fullPath) == SplitPathDir(fullPath)

\* GetParentPath that looks for the last slash in the path as given.
GetParentPathUntrimmed(path) ==
    LET pos == FindLast(path, "/")
    IN  IF pos # NPOS THEN Substring(path, 0, pos + 1) ELSE <<>>

GetParentPath(path) ==
    LET pos == FindLast(RemoveTrailingSlash(path), "/")
    IN  IF pos # NPOS THEN Substring(path, 0, pos + 1) ELSE <<>>

-----------------------------------------------------------------------------
(* The access gate *)

\* Paths handed to RegisterPath: in GateSpec, and in Spec (where only the
\* emptiness of allowedPaths_ is read).
RegisterInputs == {<<>>, <<" ", "a", "\\">>, <<"/">>, <<" ">>, <<"a", "/", "a">>}

AsyncRegisterInputs == {<<"a">>}

\* CheckAccess without the test for "..".
CheckAccessNoDotDot(allowedPaths, pathName) ==
    LET fixedPath == AddTrailingSlash(pathName)
    IN  IF allowedPaths = {} THEN TRUE
        ELSE \E allowed \in allowedPaths : Find(fixedPath, allowed) = 0

\* CheckAccess that wants every allowed directory to match.
CheckAccessAllMatch(allowedPaths, pathName) ==
    LET fixedPath == AddTrailingSlash(pathName)
    IN  IF allowedPaths = {} THEN TRUE
        ELSE IF Contains(fixedPath, <<".", ".">>) THEN FALSE
        ELSE \A allowed \in allowedPaths : Find(fixedPath, allowed) = 0

\* FileSystem::CheckAccess, with the member allowedPaths_ it reads as its
\* first parameter.
CheckAccess(allowedPaths, pathName) ==
    LET fixedPath == AddTrailingSlash(pathName)
    IN  IF allowedPaths = {} THEN TRUE
        ELSE IF Contains(fixedPath, <<".", ".">>) THEN FALSE
        ELSE \E allowed \in allowedPaths : Find(fixedPath, allowed) = 0

\* A call record: the operation, its string arguments, its result (ret for an
\* integer, ok for a bool, out for a list of strings) and the calls it made to
\* the world outside the facade (backend, host shell), in order.
Call(op, args) ==
    [op |-> op, args |-> args, flags |-> 0, recursive |-> FALSE,
     ret |-> 0, ok |-> FALSE, out |-> <<>>, ext |-> <<>>]

\* A call made to the outside: the function, its path argument, what it returned.
Ext(fn, arg, ret) == [fn |-> fn, arg |-> arg, ret |-> ret]

NoCall == Call("none", <<>>)

RegisterPath(pathName) ==
    /\ mainpc = "idle"
    /\ allowedPaths_' = IF pathName = <<>> THEN allowedPaths_
                        ELSE allowedPaths_ \cup {AddTrailingSlash(pathName)}
    /\ lastCall' = Call("RegisterPath", <<pathName>>)
    /\ UNCHANGED <<consoleVars, asyncVars, fsVars>>

-----------------------------------------------------------------------------
(* The archive backend (PhysFS), as the facade sees it *)

\* The backend names an entry by the segments of its path: leading, trailing
\* and doubled slashes do not count.  The root is <<>>.
BackendKey(path) == Segments(path)

\* The backend refuses names with a "." or ".." segment or a backslash.
BackendValid(path) ==
    LET segments == Segments(path)
    IN  /\ \A i \in 1..Len(path) : path[i] # "\\"
        /\ \A i \in 1..Len(segments) : segments[i] \notin {<<".">>, <<".", ".">>}

FileKeys(files) == {f[1] : f \in files}

ContentOf(files, key) == (CHOOSE f \in files : f[1] = key)[2]

Ancestors(key) == {SubSeq(key, 1, n) : n \in 1..(Len(key) - 1)}

\* The preference directory, which LoadIdentity makes the write directory:
\* dirs and files are what it holds.
PrefDir == <<"/", "P", "/">>

\* The archives and directories on the host disk, by the segments of their
\* real paths, with what each holds: directories, regular files with their
\* contents, symbolic links, and entries of any other type.  /A and /B both
\* hold f; /A also holds a/c, the files a.c and a.C, the hidden file .c, the
\* hidden directory .d with the file .d/f, the symbolic link d, the entry c
\* that is neither file nor directory, and the directory "a " (its name ends
\* with a blank) with the file "a /f"; the archive C in the preference
\* directory holds f as well, and a file that bears the archive's own name, C.
DiskEntries ==
    { [at |-> << <<"A">> >>,
       dirs |-> {<< <<"a">> >>, << <<".", "d">> >>, << <<"a", " ">> >>},
       files |-> {<< << <<"f">> >>, 1 >>, << << <<"a">>, <<"c">> >>, 1 >>,
                  << << <<"a", ".", "c">> >>, 1 >>, << << <<"a", ".", "C">> >>, 1 >>,
                  << << <<".", "c">> >>, 1 >>, << << <<".", "d">>, <<"f">> >>, 1 >>,
                  << << <<"a", " ">>, <<"f">> >>, 1 >>},
       links |-> {<< <<"d">> >>},
       others |-> {<< <<"c">> >>}],
      [at |-> << <<"B">> >>, dirs |-> {}, files |-> {<< << <<"f">> >>, 2 >>},
       links |-> {}, others |-> {}],
      [at |-> << <<"P">>, <<"C">> >>, dirs |-> {},
       files |-> {<< << <<"f">> >>, 3 >>, << << <<"C">> >>, 4 >>},
       links |-> {}, others |-> {}] }

\* The host names an entry by the segments of its real path: a trailing or a
\* doubled slash does not count.
IsPrefDir(real) == Segments(real) = Segments(PrefDir)

Mountable(real) == IsPrefDir(real) \/ Segments(real) \in {e.at : e \in DiskEntries}

\* The entry of the host disk at real.
DiskEntry(real) == CHOOSE e \in DiskEntries : e.at = Segments(real)

\* What the mount of real holds, when the preference directory holds dirs
\* and files.  The backend hides symbolic links unless they are permitted.
Layer(dirs, files, real) ==
    IF IsPrefDir(real) THEN [dirs |-> dirs, files |-> files, links |-> {}, others |-> {}]
    ELSE [dirs |-> DiskEntry(real).dirs, files |-> DiskEntry(real).files,
          links |-> IF symLinks THEN DiskEntry(real).links ELSE {},
          others |-> DiskEntry(real).others]

\* PHYSFS_Stat.filetype of key within one mount: "dir" (DIRECTORY), "file"
\* (REGULAR), "symlink", "other"; "none" when the mount does not hold key.
LayerStat(layer, key) ==
    IF key = <<>> \/ key \in layer.dirs THEN "dir"
    ELSE IF key \in FileKeys(layer.files) THEN "file"
    ELSE IF key \in layer.links THEN "symlink"
    ELSE IF key \in layer.others THEN "other"
    ELSE "none"

\* The mounts of path that hold the entry key, as positions in path.
Holders(path, dirs, files, key) ==
    {i \in 1..Len(path) : LayerStat(Layer(dirs, files, path[i]), key) # "none"}

\* The least position in a set of positions, 0 when there is none.
FirstOf(positions) ==
    IF positions = {} THEN 0 ELSE CHOOSE i \in positions : \A j \in positions : i <= j

FirstHolder(path, dirs, files, key) == FirstOf(Holders(path, dirs, files, key))

StatAt(path, dirs, files, key, i) ==
    IF i = 0 THEN "none" ELSE LayerStat(Layer(dirs, files, path[i]), key)

\* PHYSFS_stat: the type of the entry in the first mount of the search path
\* that holds it: "dir", "file", or "none" when the stat fails.
BackendStat(dirs, files, path) ==
    IF ~BackendValid(path) THEN "none"
    ELSE StatAt(searchPath, dirs, files, BackendKey(path),
                FirstHolder(searchPath, dirs, files, BackendKey(path)))

LayerContent(layer, key) ==
    IF key \in FileKeys(layer.files) \ layer.dirs THEN ContentOf(layer.files, key) ELSE 0

ContentAt(path, dirs, files, key, i) ==
    IF i = 0 THEN 0 ELSE LayerContent(Layer(dirs, files, path[i]), key)

\* The contents a read of key yields over the search path path: those of the
\* first mount that holds it, 0 when none does or when it is a directory there.
ReadKey(path, dirs, files, key) ==
    ContentAt(path, dirs, files, key, FirstHolder(path, dirs, files, key))

\* PHYSFS_getRealDir: the real path of the first mount that holds name.
RealAt(path, i) == IF i = 0 THEN <<>> ELSE path[i]

BackendRealDirOf(path, dirs, files, key) ==
    RealAt(path, FirstHolder(path, dirs, files, key))

BackendRealDir(path, name) == BackendRealDirOf(path, fsDirs, fsFiles, Segments(name))

\* What a read of the virtual file name yields over the search path path.
ReadOf(path, name) == ReadKey(path, fsDirs, fsFiles, Segments(name))

\* The files the mount of real holds.
Holds(real) == Layer(fsDirs, fsFiles, real).files

InPath(path, real) == \E i \in 1..Len(path) : path[i] = real

\* PHYSFS_mkdir succeeds, creating missing ancestors in the write directory,
\* unless there is no write directory, the backend fails or an entry on the
\* way is a file.
BackendMkdirOk(dirs, files, path, backendOk) ==
    /\ writeDir # <<>>
    /\ backendOk
    /\ BackendValid(path)
    /\ (Ancestors(BackendKey(path)) \cup {BackendKey(path)}) \cap FileKeys(files) = {}

BackendMkdir(dirs, files, path, backendOk) ==
    IF BackendMkdirOk(dirs, files, path, backendOk)
    THEN dirs \cup ((Ancestors(BackendKey(path)) \cup {BackendKey(path)}) \ {<<>>})
    ELSE dirs

\* PHYSFS_delete removes a file or an empty directory of the write directory.
BackendDeleteOk(dirs, files, path, backendOk) ==
    LET key == BackendKey(path)
    IN  /\ writeDir # <<>>
        /\ backendOk
        /\ BackendValid(path)
        /\ \/ key \in FileKeys(files)
           \/ /\ key \in dirs
              /\ \A k \in dirs \cup FileKeys(files) : key \notin Ancestors(k)

\* File(FILE_READ)::IsOpen
OpenReadOk(dirs, files, path) == BackendStat(dirs, files, path) = "file"

\* File(FILE_WRITE)::IsOpen: the file is opened in the write directory, where
\* its directory must exist.
OpenWriteOk(dirs, files, path, backendOk) ==
    LET key == BackendKey(path)
    IN  /\ writeDir # <<>>
        /\ backendOk
        /\ BackendValid(path)
        /\ key # <<>>
        /\ key \notin dirs
        /\ SubSeq(key, 1, Len(key) - 1) \in dirs \cup {<<>>}

\* The characters in the order of their codes, and the order of names it gives.
CharOrder == <<" ", "*", ".", "/", "A", "B", "C", "P", "\\", "a", "b", "c", "d", "f">>

CharRank(c) == CHOOSE i \in 1..Len(CharOrder) : CharOrder[i] = c

RECURSIVE NameLess(_, _)
NameLess(s, t) ==
    IF s = <<>> THEN t # <<>>
    ELSE IF t = <<>> THEN FALSE
    ELSE IF s[1] # t[1] THEN CharRank(s[1]) < CharRank(t[1])
    ELSE NameLess(Tail(s), Tail(t))

RECURSIVE SortNames(_)
SortNames(names) ==
    IF names = {} THEN <<>>
    ELSE LET first == CHOOSE n \in names : \A m \in names \ {n} : NameLess(n, m)
         IN  <<first>> \o SortNames(names \ {first})

\* The entries a mount holds.
LayerKeys(layer) == layer.dirs \cup FileKeys(layer.files) \cup layer.links \cup layer.others

\* The names a mount holds in the directory key; none when key is no
\* directory there.
LayerNames(layer, key) ==
    IF LayerStat(layer, key) # "dir" THEN {}
    ELSE {k[Len(k)] : k \in {e \in LayerKeys(layer) :
                                 e # <<>> /\ SubSeq(e, 1, Len(e) - 1) = key}}

\* PHYSFS_enumerateFiles: the names in a directory, merged over the mounts of
\* the search path, without duplicates, sorted.
BackendEnumerate(dirs, files, path) ==
    IF ~BackendValid(path) THEN <<>>
    ELSE SortNames(UNION {LayerNames(Layer(dirs, files, searchPath[i]), BackendKey(path)) :
                              i \in 1..Len(searchPath)})

-----------------------------------------------------------------------------
(* The gated file operations.  Each is an operator from the facade's state   *)
(* and arguments to its result, the backend's state afterwards and the calls *)
(* made to the backend; budget is the number of mutating backend calls that  *)
(* still succeed before the backend starts to fail.                          *)

Spend(budget) == IF budget > 0 THEN budget - 1 ELSE 0

Flag(b) == IF b THEN 1 ELSE 0

\* The result of a query answered by one PHYSFS_stat of fileName, which
\* yields type: true when the type is one of wanted.
StatResult(fileName, type, wanted) ==
    [ok |-> type \in wanted, ext |-> <<Ext("stat", fileName, Flag(type # "none"))>>]

DirExistsRun(allowed, dirs, files, pathName) ==
    IF ~CheckAccess(allowed, pathName) THEN [ok |-> FALSE, ext |-> <<>>]
    ELSE StatResult(GetNativePath(RemoveTrailingSlash(pathName)),
                    BackendStat(dirs, files, GetNativePath(RemoveTrailingSlash(pathName))),
                    {"dir", "symlink"})

\* FileExists that takes a regular file only.
FileExistsRunRegularOnly(allowed, dirs, files, fileName) ==
    IF ~CheckAccess(allowed, GetPath(fileName)) THEN [ok |-> FALSE, ext |-> <<>>]
    ELSE StatResult(fileName, BackendStat(dirs, files, fileName), {"file"})

FileExistsRun(allowed, dirs, files, fileName) ==
    IF ~CheckAccess(allowed, GetPath(fileName)) THEN [ok |-> FALSE, ext |-> <<>>]
    ELSE StatResult(fileName, BackendStat(dirs, files, fileName), {"file", "symlink"})

\* The modification time of every entry that exists is 1.
ModifiedTimeResult(fileName, found) ==
    [ret |-> Flag(found), ext |-> <<Ext("stat", fileName, Flag(found))>>]

GetLastModifiedTimeRun(allowed, dirs, files, fileName) ==
    IF fileName = <<>> \/ ~CheckAccess(allowed, fileName) THEN [ret |-> 0, ext |-> <<>>]
    ELSE ModifiedTimeResult(fileName, BackendStat(dirs, files, fileName) # "none")

RECURSIVE CreateDirRun(_, _, _, _, _)
\* CreateDir's step for the parent: the DirExists query parentThere when the
\* parent path is longer than one character, and the recursive call when the
\* query says the parent is missing.
CreateDirParent(allowed, dirs, files, parentPath, budget, parentThere) ==
    IF Len(parentPath) <= 1
    THEN [ok |-> TRUE, dirs |-> dirs, budget |-> budget, ext |-> <<>>]
    ELSE IF parentThere.ok
    THEN [ok |-> TRUE, dirs |-> dirs, budget |-> budget, ext |-> parentThere.ext]
    ELSE [CreateDirRun(allowed, dirs, files, parentPath, budget)
              EXCEPT !.ext = parentThere.ext \o @]

\* CreateDir's PHYSFS_mkdir of path, after the step for the parent.
CreateDirMkdir(parent, files, path, success) ==
    [ok |-> success,
     dirs |-> BackendMkdir(parent.dirs, files, path, parent.budget > 0),
     budget |-> Spend(parent.budget),
     ext |-> Append(parent.ext, Ext("mkdir", path, Flag(success)))]

\* CreateDir without the early return: PHYSFS_mkdir is called for the
\* directory even when its parent could not be created.
CreateDirAfterParentAlways(parent, files, path) ==
    CreateDirMkdir(parent, files, path,
                   parent.ok /\ BackendMkdirOk(parent.dirs, files, path, parent.budget > 0))

\* CreateDir returns false when the parent could not be created.
CreateDirAfterParent(parent, files, path) ==
    IF ~parent.ok THEN parent
    ELSE CreateDirMkdir(parent, files, path,
                        BackendMkdirOk(parent.dirs, files, path, parent.budget > 0))

CreateDirRun(allowed, dirs, files, pathName, budget) ==
    IF ~CheckAccess(allowed, pathName)
    THEN [ok |-> FALSE, dirs |-> dirs, budget |-> budget, ext |-> <<>>]
    ELSE CreateDirAfterParent(
             CreateDirParent(allowed, dirs, files, GetParentPath(pathName), budget,
                             DirExistsRun(allowed, dirs, files, GetParentPath(pathName))),
             files, GetNativePath(RemoveTrailingSlash(pathName)))

\* Delete returns true when PHYSFS_delete returns 0 and false otherwise.
DeleteResult(dirs, files, fileName, budget, removed) ==
    [ok |-> ~removed,
     dirs |-> IF removed THEN dirs \ {BackendKey(fileName)} ELSE dirs,
     files |-> IF removed THEN {f \in files : f[1] # BackendKey(fileName)} ELSE files,
     budget |-> Spend(budget),
     ext |-> <<Ext("delete", fileName, Flag(removed))>>]

\* Delete without its access check.
DeleteRunUngated(allowed, dirs, files, fileName, budget) ==
    DeleteResult(dirs, files, fileName, budget,
                 BackendDeleteOk(dirs, files, fileName, budget > 0))

DeleteRun(allowed, dirs, files, fileName, budget) ==
    IF ~CheckAccess(allowed, GetPath(fileName))
    THEN [ok |-> FALSE, dirs |-> dirs, files |-> files, budget |-> budget, ext |-> <<>>]
    ELSE DeleteResult(dirs, files, fileName, budget,
                      BackendDeleteOk(dirs, files, fileName, budget > 0))

\* Opening the destination for writing truncates it: when it is the very
\* file the source was opened from and that file was not empty, fewer bytes
\* than its size are left to read.
CopyOntoItself(dirs, files, srcFileName, destFileName) ==
    /\ BackendKey(srcFileName) = BackendKey(destFileName)
    /\ IsPrefDir(BackendRealDirOf(searchPath, dirs, files, BackendKey(srcFileName)))
    /\ ReadKey(searchPath, dirs, files, BackendKey(srcFileName)) # 0

\* Copy that returns true whatever the byte counts were.
CopyTransferUnchecked(files, srcFileName, destFileName, budget, content, whole) ==
    [ok |-> TRUE,
     files |-> {f \in files : f[1] # BackendKey(destFileName)} \cup
                   {<<BackendKey(destFileName), IF whole THEN content ELSE 0>>},
     budget |-> Spend(Spend(budget)),
     ext |-> <<Ext("openRead", srcFileName, 1), Ext("openWrite", destFileName, 1),
               Ext("write", destFileName, Flag(whole))>>]

\* Copy's transfer: fileSize bytes are read from the source and written to
\* the destination; whole is whether both counts equal fileSize.
CopyTransfer(files, srcFileName, destFileName, budget, content, whole) ==
    [ok |-> whole,
     files |-> {f \in files : f[1] # BackendKey(destFileName)} \cup
                   {<<BackendKey(destFileName), IF whole THEN content ELSE 0>>},
     budget |-> Spend(Spend(budget)),
     ext |-> <<Ext("openRead", srcFileName, 1), Ext("openWrite", destFileName, 1),
               Ext("write", destFileName, Flag(whole))>>]

\* Copy: the source is read whole and written to the destination, which the
\* open for writing creates or truncates.
CopyRun(allowed, dirs, files, srcFileName, destFileName, budget) ==
    IF \/ ~CheckAccess(allowed, GetPath(srcFileName))
       \/ ~CheckAccess(allowed, GetPath(destFileName))
    THEN [ok |-> FALSE, files |-> files, budget |-> budget, ext |-> <<>>]
    ELSE IF ~OpenReadOk(dirs, files, srcFileName)
    THEN [ok |-> FALSE, files |-> files, budget |-> budget,
          ext |-> <<Ext("openRead", srcFileName, 0)>>]
    ELSE IF ~OpenWriteOk(dirs, files, destFileName, budget > 0)
    THEN [ok |-> FALSE, files |-> files, budget |-> Spend(budget),
          ext |-> <<Ext("openRead", srcFileName, 1), Ext("openWrite", destFileName, 0)>>]
    ELSE CopyTransfer(files, srcFileName, destFileName, budget,
                      ReadKey(searchPath, dirs, files, BackendKey(srcFileName)),
                      /\ Spend(budget) > 0
                      /\ ~CopyOntoItself(dirs, files, srcFileName, destFileName))

\* Rename's Delete of the source after a Copy that returned true.
RenameDelete(copied, deleted) ==
    [ok |-> deleted.ok, dirs |-> deleted.dirs, files |-> deleted.files,
     ext |-> copied.ext \o deleted.ext]

RenameAfterCopy(allowed, dirs, srcFileName, copied) ==
    IF copied.ok
    THEN RenameDelete(copied, DeleteRun(allowed, dirs, copied.files, srcFileName, copied.budget))
    ELSE [ok |-> FALSE, dirs |-> dirs, files |-> copied.files, ext |-> copied.ext]

RenameRun(allowed, dirs, files, srcFileName, destFileName, budget) ==
    IF \/ ~CheckAccess(allowed, GetPath(srcFileName))
       \/ ~CheckAccess(allowed, GetPath(destFileName))
    THEN [ok |-> FALSE, dirs |-> dirs, files |-> files, ext |-> <<>>]
    ELSE RenameAfterCopy(allowed, dirs, srcFileName,
                         CopyRun(allowed, dirs, files, srcFileName, destFileName, budget))

\* Scan flags.
SCAN_FILES == 1
SCAN_DIRS == 2
SCAN_HIDDEN == 4

HasFlag(flags, bit) == (flags \div bit) % 2 = 1

\* ScanDirInternal returns the entries it pushes to result and the backend
\* calls it makes; ScanEntries is its loop, from the i-th enumerated name on.
RECURSIVE ScanDirInternal(_, _, _, _, _, _, _)
RECURSIVE ScanEntries(_, _, _, _, _, _, _, _, _, _, _)

\* What the loop pushes when the filter is not looked at.
ScanPushedNoFilter(fileName, type, deltaPath, filterExtension, flags) ==
    IF type = "dir"
    THEN IF HasFlag(flags, SCAN_DIRS) THEN <<deltaPath \o fileName>> ELSE <<>>
    ELSE IF type # "none" /\ HasFlag(flags, SCAN_FILES) THEN <<deltaPath \o fileName>>
         ELSE <<>>

\* What the loop pushes to result for the entry fileName of type type.
ScanPushed(fileName, type, deltaPath, filterExtension, flags) ==
    IF type = "dir"
    THEN IF HasFlag(flags, SCAN_DIRS) THEN <<deltaPath \o fileName>> ELSE <<>>
    ELSE IF /\ type # "none"
            /\ HasFlag(flags, SCAN_FILES)
            /\ (filterExtension = <<>> \/ EndsWith(fileName, filterExtension))
         THEN <<deltaPath \o fileName>>
         ELSE <<>>

\* One entry that is not skipped as hidden: its stat, the push, the descent.
ScanEntry(fileName, type, path, deltaPath, filterExtension, flags) ==
    [out |-> ScanPushed(fileName, type, deltaPath, filterExtension, flags),
     ext |-> <<Ext("stat", path \o <<"/">> \o fileName, Flag(type # "none"))>>]

ScanBelow(dirs, files, fileName, type, path, startPath, filter, flags, recursive) ==
    IF type = "dir" /\ recursive
    THEN ScanDirInternal(dirs, files, path \o fileName, startPath, filter, flags, recursive)
    ELSE [out |-> <<>>, ext |-> <<>>]

ScanJoin(entry, below, rest) ==
    [out |-> entry.out \o below.out \o rest.out, ext |-> entry.ext \o below.ext \o rest.ext]

ScanVisit(dirs, files, fileName, type, path, deltaPath, startPath, filter, filterExtension, flags, recursive, rest) ==
    ScanJoin(ScanEntry(fileName, type, path, deltaPath, filterExtension, flags),
             ScanBelow(dirs, files, fileName, type, path, startPath, filter, flags, recursive),
             rest)

\* The loop without the test for hidden names.
RECURSIVE ScanEntriesShowHidden(_, _, _, _, _, _, _, _, _, _, _)
ScanEntriesShowHidden(dirs, files, names, i, path, deltaPath, startPath, filter, filterExtension, flags, recursive) ==
    IF i > Len(names) THEN [out |-> <<>>, ext |-> <<>>]
    ELSE ScanVisit(dirs, files, names[i],
                   BackendStat(dirs, files, path \o <<"/">> \o names[i]),
                   path, deltaPath, startPath, filter, filterExtension, flags, recursive,
                   ScanEntriesShowHidden(dirs, files, names, i + 1, path, deltaPath, startPath,
                                         filter, filterExtension, flags, recursive))

ScanEntries(dirs, files, names, i, path, deltaPath, startPath, filter, filterExtension, flags, recursive) ==
    IF i > Len(names) THEN [out |-> <<>>, ext |-> <<>>]
    ELSE IF StartsWith(names[i], <<".">>) /\ ~HasFlag(flags, SCAN_HIDDEN)
    THEN ScanEntries(dirs, files, names, i + 1, path, deltaPath, startPath,
                     filter, filterExtension, flags, recursive)
    ELSE ScanVisit(dirs, files, names[i],
                   BackendStat(dirs, files, path \o <<"/">> \o names[i]),
                   path, deltaPath, startPath, filter, filterExtension, flags, recursive,
                   ScanEntries(dirs, files, names, i + 1, path, deltaPath, startPath,
                               filter, filterExtension, flags, recursive))

ScanDirInternal(dirs, files, pathArg, startPath, filter, flags, recursive) ==
    LET path == GetNativePath(AddTrailingSlash(pathArg))
        deltaPath == IF Len(path) > Len(startPath)
                     THEN SubstringFrom(path, Len(startPath)) ELSE <<>>
        extension == SubstringFrom(filter, FindLast(filter, "."))
        filterExtension == IF ContainsChar(extension, "*") THEN <<>> ELSE extension
        names == BackendEnumerate(dirs, files, path)
        found == ScanEntries(dirs, files, names, 1, path, deltaPath, startPath, filter,
                             filterExtension, flags, recursive)
    IN  [out |-> found.out, ext |-> <<Ext("enumerate", path, Len(names))>> \o found.ext]

\* ScanDirInternal pushes what it finds to the end of result.
ScanDirInto(result, found) == [out |-> result \o found.out, ext |-> found.ext]

\* ScanDir without result.Clear().
ScanDirRunNoClear(allowed, dirs, files, result, pathName, filter, flags, recursive) ==
    IF CheckAccess(allowed, pathName)
    THEN ScanDirInto(result, ScanDirInternal(dirs, files, AddTrailingSlash(pathName),
                                             AddTrailingSlash(pathName), filter, flags, recursive))
    ELSE [out |-> result, ext |-> <<>>]

\* FileSystem::ScanDir: result is the caller's vector as it is handed in.
ScanDirRun(allowed, dirs, files, result, pathName, filter, flags, recursive) ==
    IF CheckAccess(allowed, pathName)
    THEN ScanDirInto(<<>>, ScanDirInternal(dirs, files, AddTrailingSlash(pathName),
                                           AddTrailingSlash(pathName), filter, flags, recursive))
    ELSE [out |-> <<>>, ext |-> <<>>]

-----------------------------------------------------------------------------
(* The file operations as actions of the main thread *)

\* Paths handed to the file operations: inside and outside the registered
\* directories, with and without "..".
FacadePaths ==
    { <<>>, <<"a">>, <<"a", "/", "b">>, <<"a", "/", "c">>, <<"b">>,
      <<"a", "/", ".", ".">>, <<"a", "/", ".", ".", "/", "b">> }

\* Paths handed to FileExists and DirExists: those, a directory with its
\* trailing slash, a symbolic link and an entry of another type.
QueryPaths == FacadePaths \cup {<<"a", "/">>, <<"d">>, <<"c">>}

\* Source and destination pairs handed to Copy and Rename.
CopySources == {<<"a", "/", "b">>, <<"b">>, <<"a", "/", ".", ".">>}

CopyDests == {<<"a", "/", "c">>, <<"b">>, <<"a", "/", ".", ".">>}

\* Directories handed to ScanDir.
ScanRoots == {<<>>, <<"a">>, <<"b">>, <<"a", "/", ".", ".">>}

FacadeRegisterInputs == {<<"a">>}

\* What the caller's vector holds when it is handed to ScanDir: nothing, or
\* an entry left from an earlier scan.
ScanResults == {<<>>, << <<"P">> >>}

ScanFilters == {<<"*">>, <<"*", ".", "c">>}

ScanFlagSets == {SCAN_FILES, SCAN_DIRS, SCAN_FILES + SCAN_DIRS + SCAN_HIDDEN}

\* Mutating backend calls that succeed before the backend fails.
MaxBackendOk == 2

Budgets == 0..MaxBackendOk

CreateDir(pathName, budget) ==
    /\ mainpc = "idle"
    /\ \E run \in {CreateDirRun(allowedPaths_, fsDirs, fsFiles, pathName, budget)} :
           /\ lastCall' = [Call("CreateDir", <<pathName>>) EXCEPT !.ok = run.ok, !.ext = run.ext]
           /\ fsDirs' = run.dirs
    /\ UNCHANGED <<allowedPaths_, consoleVars, asyncVars, fsFiles, queryPath, mountVars>>

Delete(fileName, budget) ==
    /\ mainpc = "idle"
    /\ \E run \in {DeleteRun(allowedPaths_, fsDirs, fsFiles, fileName, budget)} :
           /\ lastCall' = [Call("Delete", <<fileName>>) EXCEPT !.ok = run.ok, !.ext = run.ext]
           /\ fsDirs' = run.dirs
           /\ fsFiles' = run.files
    /\ UNCHANGED <<allowedPaths_, consoleVars, asyncVars, queryPath, mountVars>>

Copy(srcFileName, destFileName, budget) ==
    /\ mainpc = "idle"
    /\ \E run \in {CopyRun(allowedPaths_, fsDirs, fsFiles, srcFileName, destFileName, budget)} :
           /\ lastCall' = [Call("Copy", <<srcFileName, destFileName>>)
                               EXCEPT !.ok = run.ok, !.ext = run.ext]
           /\ fsFiles' = run.files
    /\ UNCHANGED <<allowedPaths_, consoleVars, asyncVars, fsDirs, queryPath, mountVars>>

Rename(srcFileName, destFileName, budget) ==
    /\ mainpc = "idle"
    /\ \E run \in {RenameRun(allowedPaths_, fsDirs, fsFiles, srcFileName, destFileName, budget)} :
           /\ lastCall' = [Call("Rename", <<srcFileName, destFileName>>)
                               EXCEPT !.ok = run.ok, !.ext = run.ext]
           /\ fsDirs' = run.dirs
           /\ fsFiles' = run.files
    /\ UNCHANGED <<allowedPaths_, consoleVars, asyncVars, queryPath, mountVars>>

FileExists(fileName) ==
    /\ mainpc = "idle"
    /\ \E run \in {FileExistsRun(allowedPaths_, fsDirs, fsFiles, fileName)} :
           lastCall' = [Call("FileExists", <<fileName>>) EXCEPT !.ok = run.ok, !.ext = run.ext]
    /\ UNCHANGED <<allowedPaths_, consoleVars, asyncVars, fsVars>>

DirExists(pathName) ==
    /\ mainpc = "idle"
    /\ \E run \in {DirExistsRun(allowedPaths_, fsDirs, fsFiles, pathName)} :
           lastCall' = [Call("DirExists", <<pathName>>) EXCEPT !.ok = run.ok, !.ext = run.ext]
    /\ UNCHANGED <<allowedPaths_, consoleVars, asyncVars, fsVars>>

GetLastModifiedTime(fileName) ==
    /\ mainpc = "idle"
    /\ \E run \in {GetLastModifiedTimeRun(allowedPaths_, fsDirs, fsFiles, fileName)} :
           lastCall' = [Call("GetLastModifiedTime", <<fileName>>)
                           EXCEPT !.ret = run.ret, !.ext = run.ext]
    /\ UNCHANGED <<allowedPaths_, consoleVars, asyncVars, fsVars>>

ScanDir(result, pathName, filter, flags, recursive) ==
    /\ mainpc = "idle"
    /\ \E run \in {ScanDirRun(allowedPaths_, fsDirs, fsFiles, result, pathName, filter, flags, recursive)} :
           lastCall' = [Call("ScanDir", <<pathName, filter>>)
                           EXCEPT !.flags = flags, !.recursive = recursive,
                                  !.out = run.out, !.ext = run.ext]
    /\ UNCHANGED <<allowedPaths_, consoleVars, asyncVars, fsVars>>

-----------------------------------------------------------------------------
(* The async execution queue *)

M_MAX_UNSIGNED == 2 ^ IdBits - 1

\* Built with URHO3D_THREADING.
URHO3D_THREADING == TRUE

\* unsigned nextAsyncExecID_ as the facade is constructed.
InitialAsyncExecID == 1

\* Values a command's blocking call can return: 0, or -1 (the spawn failure,
\* standing for every non-zero code).
ExitCodes == {-1, 0}

\* AsyncExecRequest::AsyncExecRequest(unsigned& requestID): the request takes
\* the referenced value as its id and advances the referenced variable.
\* Returns <<requestID_, the referenced variable afterwards>>.
AsyncExecRequestCtor(requestID) ==
    LET inc == (requestID + 1) % (2 ^ IdBits)
    IN  <<requestID, IF inc = M_MAX_UNSIGNED THEN 1 ELSE inc>>

\* AsyncSystemCommand::AsyncSystemCommand(unsigned requestID, ...) and
\* AsyncSystemRun::AsyncSystemRun(unsigned requestID, ...): the id is taken by
\* value, so the base constructor advances the constructor's own parameter;
\* the caller's variable (counter) keeps its value.  Run() starts the thread.
\* Returns <<the new request, the caller's variable afterwards>>.  The two
\* classes differ only in the blocking call their thread makes, which the
\* model leaves to WorkerReturn; req is the request's identity (its address).
NewAsyncRequest(counter, serial) ==
    LET base == AsyncExecRequestCtor(counter)
    IN  << [req |-> serial, requestID_ |-> base[1],
            exitCode_ |-> 0, completed_ |-> FALSE,
            wpc |-> "running", result |-> 0, exitStored |-> FALSE],
           counter >>

\* SubmitAsync without the test of allowedPaths_.
SubmitAsyncUngated(op) ==
    /\ mainpc = "idle"
    /\ Len(accepted) < MaxRequests
    /\ LET requestID == nextAsyncExecID_
           made      == NewAsyncRequest(nextAsyncExecID_, Len(accepted) + 1)
       IN  /\ nextAsyncExecID_' = made[2]
           /\ asyncExecQueue_' = Append(asyncExecQueue_, made[1])
           /\ accepted' = Append(accepted, requestID)
           /\ lastCall' = [Call(op, <<>>) EXCEPT !.ret = requestID,
                                                        !.ext = <<Ext("Run", <<>>, 0)>>]
    /\ UNCHANGED <<allowedPaths_, consoleVars, frameSampled, mainpc, drainPos, events, fsVars>>

\* SubmitAsync that starts the request but does not push it onto the queue.
SubmitAsyncUnqueued(op) ==
    /\ mainpc = "idle"
    /\ IF URHO3D_THREADING /\ allowedPaths_ = {}
       THEN /\ Len(accepted) < MaxRequests
            /\ accepted' = Append(accepted, nextAsyncExecID_)
            /\ lastCall' = [Call(op, <<>>) EXCEPT !.ret = nextAsyncExecID_, !.ext = <<Ext("Run", <<>>, 0)>>]
            /\ UNCHANGED <<nextAsyncExecID_, asyncExecQueue_>>
       ELSE /\ lastCall' = [Call(op, <<>>) EXCEPT !.ret = M_MAX_UNSIGNED]
            /\ UNCHANGED <<nextAsyncExecID_, asyncExecQueue_, accepted>>
    /\ UNCHANGED <<allowedPaths_, consoleVars, frameSampled, mainpc, drainPos, events, fsVars>>

\* The body shared by SystemCommandAsync and SystemRunAsync.
SubmitAsync(op) ==
    /\ mainpc = "idle"
    /\ IF URHO3D_THREADING /\ allowedPaths_ = {}
       THEN /\ Len(accepted) < MaxRequests
            /\ LET requestID == nextAsyncExecID_
                   made      == NewAsyncRequest(nextAsyncExecID_, Len(accepted) + 1)
               IN  /\ nextAsyncExecID_' = made[2]
                   /\ asyncExecQueue_' = Append(asyncExecQueue_, made[1])
                   /\ accepted' = Append(accepted, requestID)
                   /\ lastCall' = [Call(op, <<>>) EXCEPT !.ret = requestID,
                                                        !.ext = <<Ext("Run", <<>>, 0)>>]
       ELSE /\ lastCall' = [Call(op, <<>>) EXCEPT !.ret = M_MAX_UNSIGNED]
            /\ UNCHANGED <<nextAsyncExecID_, asyncExecQueue_, accepted>>
    /\ UNCHANGED <<allowedPaths_, consoleVars, frameSampled, mainpc, drainPos, events, fsVars>>

SystemCommandAsync == SubmitAsync("SystemCommandAsync")

SystemRunAsync == SubmitAsync("SystemRunAsync")

\* RunSync that executes whatever allowedPaths_ holds.
RunSyncUngated(op, exitCode) ==
    /\ mainpc = "idle"
    /\ lastCall' = [Call(op, <<>>) EXCEPT !.ret = exitCode,
                                          !.ext = <<Ext("exec", <<>>, exitCode)>>]
    /\ UNCHANGED <<allowedPaths_, consoleVars, asyncVars, fsVars>>

\* The body shared by SystemCommand and SystemRun: DoSystemCommand /
\* DoSystemRun blocks and returns the exit code, or -1 when the spawn fails.
RunSync(op, exitCode) ==
    /\ mainpc = "idle"
    /\ lastCall' = IF allowedPaths_ = {}
                   THEN [Call(op, <<>>) EXCEPT !.ret = exitCode,
                                               !.ext = <<Ext("exec", <<>>, exitCode)>>]
                   ELSE [Call(op, <<>>) EXCEPT !.ret = -1]
    /\ UNCHANGED <<allowedPaths_, consoleVars, asyncVars, fsVars>>

SystemCommand == \E exitCode \in ExitCodes : RunSync("SystemCommand", exitCode)

SystemRun == \E exitCode \in ExitCodes : RunSync("SystemRun", exitCode)

\* Position in the queue of the request with serial number n, 0 when it is
\* not queued.
QueuePos(n) ==
    IF \E i \in 1..Len(asyncExecQueue_) : asyncExecQueue_[i].req = n
    THEN CHOOSE i \in 1..Len(asyncExecQueue_) : asyncExecQueue_[i].req = n
    ELSE 0

SetRequest(i, r) == asyncExecQueue_' = [asyncExecQueue_ EXCEPT ![i] = r]

\* ThreadFunction, first half: the blocking DoSystemCommand / DoSystemRun
\* returns exitCode.
WorkerReturn(n, exitCode) ==
    LET i == QueuePos(n)
    IN  /\ i # 0
        /\ asyncExecQueue_[i].wpc = "running"
        /\ SetRequest(i, [asyncExecQueue_[i] EXCEPT !.wpc = "returned", !.result = exitCode])
        /\ UNCHANGED <<allowedPaths_, consoleVars, frameSampled, nextAsyncExecID_, mainpc, drainPos, events,
                       accepted, lastCall, fsVars>>

\* ThreadFunction: exitCode_ = <the value returned>.  exitCode_ is a plain int
\* and completed_ a volatile bool, read by the main thread without
\* synchronisation: the two stores can reach the main thread in either order.
StoreExitCode(n) ==
    LET i == QueuePos(n)
    IN  /\ i # 0
        /\ asyncExecQueue_[i].wpc = "returned"
        /\ ~asyncExecQueue_[i].exitStored
        /\ SetRequest(i, [asyncExecQueue_[i] EXCEPT !.exitCode_ = asyncExecQueue_[i].result,
                                                   !.exitStored = TRUE])
        /\ UNCHANGED <<allowedPaths_, consoleVars, frameSampled, nextAsyncExecID_, mainpc, drainPos, events,
                       accepted, lastCall, fsVars>>

\* ThreadFunction without its last statement: completed_ is never set.
StoreCompletedOmitted(n) ==
    LET i == QueuePos(n)
    IN  /\ i # 0
        /\ asyncExecQueue_[i].wpc = "returned"
        /\ ~asyncExecQueue_[i].completed_
        /\ UNCHANGED vars

\* ThreadFunction: completed_ = true.
StoreCompleted(n) ==
    LET i == QueuePos(n)
    IN  /\ i # 0
        /\ asyncExecQueue_[i].wpc = "returned"
        /\ ~asyncExecQueue_[i].completed_
        /\ SetRequest(i, [asyncExecQueue_[i] EXCEPT !.completed_ = TRUE])
        /\ UNCHANGED <<allowedPaths_, consoleVars, frameSampled, nextAsyncExecID_, mainpc, drainPos, events,
                       accepted, lastCall, fsVars>>

RemoveAt(q, i) == SubSeq(q, 1, i - 1) \o SubSeq(q, i + 1, Len(q))

\* HandleBeginFrame is entered: i = asyncExecQueue_.Begin().
HandleBeginFrame ==
    /\ mainpc = "idle"
    /\ mainpc' = "drain"
    /\ drainPos' = 1
    /\ frameSampled' = <<>>
    /\ UNCHANGED <<allowedPaths_, consoleVars, nextAsyncExecID_, asyncExecQueue_, events,
                   accepted, lastCall, fsVars>>

\* DrainStep that sends the event and steps on (++i) without Erase.
DrainStepNoErase ==
    /\ mainpc = "drain"
    /\ IF drainPos > Len(asyncExecQueue_)
       THEN /\ mainpc' = "idle"
            /\ UNCHANGED <<drainPos, events, frameSampled>>
       ELSE LET request == asyncExecQueue_[drainPos]
            IN  /\ drainPos' = drainPos + 1
                /\ frameSampled' = Append(frameSampled, [req |-> request.req, completed |-> request.completed_])
                /\ mainpc' = mainpc
                /\ events' = IF request.completed_ /\ Len(events) < MaxRequests + 1
                             THEN Append(events, [req |-> request.req,
                                                  requestID |-> request.requestID_,
                                                  exitCode |-> request.exitCode_])
                             ELSE events
    /\ UNCHANGED <<allowedPaths_, consoleVars, nextAsyncExecID_, asyncExecQueue_, accepted,
                   lastCall, fsVars>>

\* DrainStep that steps on (++i) after Erase as well.
DrainStepEraseAndAdvance ==
    /\ mainpc = "drain"
    /\ IF drainPos > Len(asyncExecQueue_)
       THEN /\ mainpc' = "idle"
            /\ UNCHANGED <<drainPos, asyncExecQueue_, events, frameSampled>>
       ELSE LET request == asyncExecQueue_[drainPos]
            IN  /\ frameSampled' = Append(frameSampled, [req |-> request.req, completed |-> request.completed_])
                /\ drainPos' = drainPos + 1
                /\ mainpc' = mainpc
                /\ events' = IF request.completed_
                             THEN Append(events, [req |-> request.req,
                                                  requestID |-> request.requestID_,
                                                  exitCode |-> request.exitCode_])
                             ELSE events
                /\ asyncExecQueue_' = IF request.completed_ THEN RemoveAt(asyncExecQueue_, drainPos)
                                      ELSE asyncExecQueue_
    /\ UNCHANGED <<allowedPaths_, consoleVars, nextAsyncExecID_, accepted, lastCall, fsVars>>

\* One turn of HandleBeginFrame's loop; the handler returns at End().
DrainStep ==
    /\ mainpc = "drain"
    /\ IF drainPos > Len(asyncExecQueue_)
       THEN /\ mainpc' = "idle"
            /\ UNCHANGED <<drainPos, asyncExecQueue_, events, frameSampled>>
       ELSE LET request == asyncExecQueue_[drainPos]
            IN  IF request.completed_
                THEN /\ frameSampled' = Append(frameSampled, [req |-> request.req, completed |-> TRUE])
                     /\ events' = Append(events, [req |-> request.req,
                                                  requestID |-> request.requestID_,
                                                  exitCode |-> request.exitCode_])
                     /\ asyncExecQueue_' = RemoveAt(asyncExecQueue_, drainPos)
                     /\ UNCHANGED <<mainpc, drainPos>>
                ELSE /\ frameSampled' = Append(frameSampled, [req |-> request.req, completed |-> FALSE])
                     /\ drainPos' = drainPos + 1
                     /\ UNCHANGED <<mainpc, asyncExecQueue_, events>>
    /\ UNCHANGED <<allowedPaths_, consoleVars, nextAsyncExecID_, accepted, lastCall, fsVars>>

\* A destructor that reports the completed requests before it deletes all.
DestroyReporting ==
    /\ mainpc = "idle"
    /\ mainpc' = "destroyed"
    /\ asyncExecQueue_' = <<>>
    /\ events' = events \o [i \in 1..Len(SelectSeq(asyncExecQueue_, LAMBDA r : r.completed_)) |-> [req |-> SelectSeq(asyncExecQueue_, LAMBDA r : r.completed_)[i].req, requestID |-> SelectSeq(asyncExecQueue_, LAMBDA r : r.completed_)[i].requestID_, exitCode |-> SelectSeq(asyncExecQueue_, LAMBDA r : r.completed_)[i].exitCode_]]
    /\ UNCHANGED <<allowedPaths_, consoleVars, frameSampled, nextAsyncExecID_, drainPos, accepted, lastCall, fsVars>>

\* FileSystem::~FileSystem: pending requests are deleted, none is reported.
Destroy ==
    /\ mainpc = "idle"
    /\ mainpc' = "destroyed"
    /\ asyncExecQueue_' = <<>>
    /\ UNCHANGED <<allowedPaths_, consoleVars, frameSampled, nextAsyncExecID_, drainPos, events, accepted,
                   lastCall, fsVars>>

\* A caller asks the gate about queryPath.
CallCheckAccess ==
    /\ mainpc = "idle"
    /\ lastCall' = [Call("CheckAccess", <<queryPath>>) EXCEPT !.ok = CheckAccess(allowedPaths_, queryPath)]
    /\ UNCHANGED <<allowedPaths_, consoleVars, asyncVars, fsVars>>

\* The C library's default temporary directory, where <stdio.h> defines it.
P_tmpdir == <<"/", "t", "m", "p">>

\* GetTemporaryDir of a build that is not _WIN32. getenv returns a pointer
\* whenever the variable is set, to an empty string too; without the variable
\* the result is P_tmpdir with a slash, or the literal "/tmp/".
GetTemporaryDir(isSet, pathName, hasPtmpdir) ==
    IF isSet THEN AddTrailingSlash(pathName)
    ELSE IF hasPtmpdir THEN AddTrailingSlash(P_tmpdir)
    ELSE <<"/", "t", "m", "p", "/">>

\* A caller asks for the temporary directory; TMPDIR is unset or holds queryPath.
CallGetTemporaryDir(isSet, hasPtmpdir) ==
    /\ mainpc = "idle"
    /\ lastCall' = [Call("GetTemporaryDir", <<>>) EXCEPT !.ok = TRUE, !.out = <<GetTemporaryDir(isSet, queryPath, hasPtmpdir)>>, !.ext = <<Ext("getenv", IF isSet THEN queryPath ELSE <<>>, Flag(isSet))>>]
    /\ UNCHANGED <<allowedPaths_, consoleVars, asyncVars, fsVars>>

-----------------------------------------------------------------------------
(* The console bridge *)

\* GetTypeName() of the facade, and the id of some other receiver.
TypeName == <<"F", "i", "l", "e", "S", "y", "s", "t", "e", "m">>

ConsoleIds == {TypeName, <<"C", "o", "n", "s", "o", "l", "e">>}

ConsoleCommands == {<<>>, <<"a">>}

\* SetExecuteConsoleCommands that never unsubscribes.
SetExecuteConsoleCommandsKeepSubscribed(enable) ==
    /\ mainpc = "idle"
    /\ lastCall' = [Call("SetExecuteConsoleCommands", <<>>) EXCEPT !.flags = Flag(enable)]
    /\ executeConsoleCommands_' = enable
    /\ consoleSubscribed' = (consoleSubscribed \/ (enable /\ ~executeConsoleCommands_))
    /\ UNCHANGED <<allowedPaths_, asyncVars, fsVars>>

\* The call returns at once when enable is the current value; otherwise it
\* stores the value and subscribes to or unsubscribes from E_CONSOLECOMMAND.
SetExecuteConsoleCommands(enable) ==
    /\ mainpc = "idle"
    /\ lastCall' = [Call("SetExecuteConsoleCommands", <<>>) EXCEPT !.flags = Flag(enable)]
    /\ IF enable = executeConsoleCommands_
       THEN UNCHANGED consoleVars
       ELSE /\ executeConsoleCommands_' = enable
            /\ consoleSubscribed' = enable
    /\ UNCHANGED <<allowedPaths_, asyncVars, fsVars>>

\* HandleConsoleCommand that passes every command on, whatever its id.
HandleConsoleCommandAnyId(id, command, exitCode) ==
    [Call("ConsoleCommand", <<id, command>>) EXCEPT !.ok = TRUE, !.flags = Flag(TRUE), !.out = <<command>>, !.ret = IF allowedPaths_ = {} THEN exitCode ELSE -1, !.ext = IF allowedPaths_ = {} THEN <<Ext("exec", command, exitCode)>> ELSE <<>>]

\* HandleConsoleCommand: an event whose id is the type name is handed to
\* SystemCommand(command, true). In the record, ok tells that SystemCommand
\* was called, out holds its command line, flags its redirectStdOutToLog,
\* ret its result and ext the command DoSystemCommand ran.
HandleConsoleCommand(id, command, exitCode) ==
    IF id = TypeName
    THEN [Call("ConsoleCommand", <<id, command>>) EXCEPT !.ok = TRUE, !.flags = Flag(TRUE), !.out = <<command>>, !.ret = IF allowedPaths_ = {} THEN exitCode ELSE -1, !.ext = IF allowedPaths_ = {} THEN <<Ext("exec", command, exitCode)>> ELSE <<>>]
    ELSE Call("ConsoleCommand", <<id, command>>)

\* The host sends a ConsoleCommand event: the handler runs when the facade
\* is subscribed to it.
ConsoleCommand(id, command, exitCode) ==
    /\ mainpc = "idle"
    /\ lastCall' = IF consoleSubscribed THEN HandleConsoleCommand(id, command, exitCode)
                   ELSE Call("ConsoleCommand", <<id, command>>)
    /\ UNCHANGED <<allowedPaths_, consoleVars, asyncVars, fsVars>>

-----------------------------------------------------------------------------
(* Mounting: the search path and the write directory *)

\* PHYSFS_mount: fails for a path that cannot be read; leaves a path that is
\* already mounted where it is; else puts it last (append) or first.
BackendMountOk(path, real) == Mountable(real)

\* PHYSFS_mount that puts an unreadable path into the search path too.
BackendMountUnchecked(path, real, append) ==
    IF InPath(path, real) THEN path
    ELSE IF append # 0 THEN Append(path, real)
    ELSE <<real>> \o path

BackendMount(path, real, append) ==
    IF ~BackendMountOk(path, real) \/ InPath(path, real) THEN path
    ELSE IF append # 0 THEN Append(path, real)
    ELSE <<real>> \o path

\* PHYSFS_unmount: fails for a path that is not mounted.
BackendUnmount(path, real) == SelectSeq(path, LAMBDA m : m # real)

IsAbsolutePath(pathName) ==
    IF pathName = <<>> THEN FALSE
    ELSE GetInternalPath(pathName)[1] = "/"

\* FileSystem::GetRealFileDir
GetRealFileDir(path, fileName) == BackendRealDir(path, fileName)

\* The real path MountArchive and UnmountArchive hand to the backend.
ArchivePath(path, fileName) ==
    GetNativePath(RemoveTrailingSlash(
        IF IsAbsolutePath(fileName) THEN fileName
        ELSE GetRealFileDir(path, fileName) \o <<"/">> \o fileName))

\* Archive names handed to MountArchive and UnmountArchive.
ArchiveNames == { <<"/", "A">>, <<"/", "B">>, <<"C">>, <<"/", "P", "/">>, <<"/", "a">> }

\* The archive mounted and unmounted between the file operations.
FacadeArchives == { <<"/", "A">> }

\* MountArchive that always passes append = 1.
MountArchiveAlwaysAppend(fileName, priority) ==
    /\ mainpc = "idle"
    /\ LET pathName == ArchivePath(searchPath, fileName)
           success == BackendMountOk(searchPath, pathName)
       IN  /\ searchPath' = BackendMount(searchPath, pathName, 1)
           /\ lastCall' = [Call("MountArchive", <<fileName, <<>>>>) EXCEPT
                               !.flags = Flag(priority), !.ok = success,
                               !.ext = <<Ext("mountAppend", pathName, Flag(success))>>]
    /\ UNCHANGED <<allowedPaths_, consoleVars, asyncVars, fsDirs, fsFiles, queryPath, writeDir, symLinks>>

\* FileSystem::MountArchive, at the root mount point.
MountArchive(fileName, priority) ==
    /\ mainpc = "idle"
    /\ LET pathName == ArchivePath(searchPath, fileName)
           append == IF priority THEN 1 ELSE 0
           success == BackendMountOk(searchPath, pathName)
       IN  /\ searchPath' = BackendMount(searchPath, pathName, append)
           /\ lastCall' = [Call("MountArchive", <<fileName, <<>>>>) EXCEPT
                               !.flags = Flag(priority), !.ok = success,
                               !.ext = <<Ext(IF append # 0 THEN "mountAppend" ELSE "mount",
                                             pathName, Flag(success))>>]
    /\ UNCHANGED <<allowedPaths_, consoleVars, asyncVars, fsDirs, fsFiles, queryPath, writeDir, symLinks>>

\* What UnmountArchive(fileName) does over the search path path: the real
\* path it hands to PHYSFS_unmount, the result, the search path afterwards.
UnmountArchiveAt(path, pathName) ==
    [real |-> pathName, ok |-> InPath(path, pathName), path |-> BackendUnmount(path, pathName)]

UnmountArchiveRun(path, fileName) == UnmountArchiveAt(path, ArchivePath(path, fileName))

UnmountArchive(fileName) ==
    /\ mainpc = "idle"
    /\ \E run \in {UnmountArchiveRun(searchPath, fileName)} :
           /\ searchPath' = run.path
           /\ lastCall' = [Call("UnmountArchive", <<fileName>>) EXCEPT
                               !.ok = run.ok,
                               !.ext = <<Ext("unmount", run.real, Flag(run.ok))>>]
    /\ UNCHANGED <<allowedPaths_, consoleVars, asyncVars, fsDirs, fsFiles, queryPath, writeDir, symLinks>>

\* FileSystem::LoadIdentity: found is whether PHYSFS_getPrefDir returns a
\* directory, mounted whether PHYSFS_mount accepts it, settable whether
\* PHYSFS_setWriteDir accepts it.
LoadIdentity(found, mounted, settable) ==
    /\ mainpc = "idle"
    /\ IF ~found
       THEN /\ lastCall' = [Call("LoadIdentity", <<>>) EXCEPT
                                !.ext = <<Ext("getPrefDir", <<>>, 0)>>]
            /\ UNCHANGED mountVars
       ELSE IF ~mounted
       THEN /\ lastCall' = [Call("LoadIdentity", <<>>) EXCEPT
                                !.ext = <<Ext("getPrefDir", <<>>, 1),
                                          Ext("mount", PrefDir, 0)>>]
            /\ UNCHANGED mountVars
       ELSE /\ searchPath' = BackendMount(searchPath, PrefDir, 0)
            /\ writeDir' = IF settable THEN PrefDir ELSE writeDir
            /\ lastCall' = [Call("LoadIdentity", <<>>) EXCEPT
                                !.ok = settable,
                                !.ext = <<Ext("getPrefDir", <<>>, 1),
                                          Ext("mount", PrefDir, 1),
                                          Ext("setWriteDir", PrefDir, Flag(settable))>>]
    /\ UNCHANGED <<allowedPaths_, consoleVars, asyncVars, fsDirs, fsFiles, queryPath, symLinks>>

\* FileSystem::PermitSymLinks
PermitSymLinks ==
    /\ mainpc = "idle"
    /\ symLinks' = TRUE
    /\ lastCall' = [Call("PermitSymLinks", <<>>) EXCEPT
                        !.ext = <<Ext("permitSymbolicLinks", <<>>, 1)>>]
    /\ UNCHANGED <<allowedPaths_, consoleVars, asyncVars, fsDirs, fsFiles, queryPath, searchPath, writeDir>>

-----------------------------------------------------------------------------
(* Specifications *)

\* FileSystem::FileSystem: nothing registered, nothing queued.
Constructed ==
    /\ allowedPaths_ = {}
    /\ nextAsyncExecID_ = InitialAsyncExecID
    /\ asyncExecQueue_ = <<>>
    /\ mainpc = "idle"
    /\ drainPos = 1
    /\ events = <<>>
    /\ accepted = <<>>
    /\ frameSampled = <<>>
    /\ lastCall = NoCall
    \* the constructor's SetExecuteConsoleCommands(true)
    /\ executeConsoleCommands_ = TRUE
    /\ consoleSubscribed = TRUE

\* Nothing is mounted and the preference directory is empty.
EmptyBackend ==
    fsDirs = {} /\ fsFiles = {} /\ searchPath = <<>> /\ writeDir = <<>> /\ symLinks = FALSE

Init == Constructed /\ EmptyBackend /\ queryPath = <<>>

Worker(n) ==
    \/ \E exitCode \in ExitCodes : WorkerReturn(n, exitCode)
    \/ StoreExitCode(n)
    \/ StoreCompleted(n)

Next ==
    \/ \E pathName \in AsyncRegisterInputs : RegisterPath(pathName)
    \/ SystemCommandAsync
    \/ SystemRunAsync
    \/ \E n \in 1..MaxRequests : Worker(n)
    \/ HandleBeginFrame
    \/ DrainStep
    \/ Destroy

Spec == Init /\ [][Next]_vars

\* The access gate alone: the caller's path is any string of up to MaxLen
\* characters; registrations, queries about that path, and the synchronous
\* commands the gate switches off.
GateInit == Constructed /\ EmptyBackend /\ queryPath \in Strings

GateNext ==
    \/ \E pathName \in RegisterInputs : RegisterPath(pathName)
    \/ CallCheckAccess
    \/ SystemCommand
    \/ SystemRun

GateSpec == GateInit /\ [][GateNext]_vars

\* The path utilities at work: the caller's string, any of up to MaxLen
\* characters, is the value of TMPDIR or the directory to create, before and
\* after a path has been registered.
PathNext ==
    \/ \E pathName \in AsyncRegisterInputs : RegisterPath(pathName)
    \/ \E isSet \in BOOLEAN, hasPtmpdir \in BOOLEAN : CallGetTemporaryDir(isSet, hasPtmpdir)
    \/ CreateDir(queryPath, 0)

PathSpec == GateInit /\ [][PathNext]_vars

\* The console bridge: the host enables and disables console execution,
\* sends console commands and restricts the facade to registered paths.
ConsoleInit == Constructed /\ EmptyBackend /\ queryPath = <<>>

ConsoleNext ==
    \/ \E pathName \in RegisterInputs : RegisterPath(pathName)
    \/ \E enable \in BOOLEAN : SetExecuteConsoleCommands(enable)
    \/ \E id \in ConsoleIds, command \in ConsoleCommands, exitCode \in ExitCodes : ConsoleCommand(id, command, exitCode)
    \/ SystemCommand

ConsoleSpec == ConsoleInit /\ [][ConsoleNext]_vars

\* The file operations once LoadIdentity has made the preference directory
\* the write directory; it holds a directory a with the file a/b in it, and a
\* file b beside it.
FacadeInit ==
    /\ Constructed
    /\ queryPath = <<>>
    /\ searchPath = <<PrefDir>>
    /\ writeDir = PrefDir
    /\ symLinks = FALSE
    /\ fsDirs = {<< <<"a">> >>}
    /\ fsFiles = {<< << <<"a">>, <<"b">> >>, 1 >>, << << <<"b">> >>, 2 >>}

\* The caller takes the result of a call before it makes the next one.
Return ==
    /\ lastCall # NoCall
    /\ lastCall' = NoCall
    /\ UNCHANGED <<allowedPaths_, consoleVars, asyncVars, fsVars>>

FacadeNext ==
    \/ \E pathName \in FacadeRegisterInputs : lastCall = NoCall /\ RegisterPath(pathName)
    \/ \E pathName \in FacadePaths, budget \in Budgets :
          lastCall = NoCall /\ CreateDir(pathName, budget)
    \/ \E fileName \in FacadePaths, budget \in Budgets :
          lastCall = NoCall /\ Delete(fileName, budget)
    \/ \E srcFileName \in CopySources, destFileName \in CopyDests, budget \in Budgets :
          lastCall = NoCall /\ Copy(srcFileName, destFileName, budget)
    \/ \E srcFileName \in CopySources, destFileName \in CopyDests, budget \in Budgets :
          lastCall = NoCall /\ Rename(srcFileName, destFileName, budget)
    \/ \E fileName \in QueryPaths : lastCall = NoCall /\ FileExists(fileName)
    \/ \E pathName \in QueryPaths : lastCall = NoCall /\ DirExists(pathName)
    \/ \E fileName \in FacadePaths : lastCall = NoCall /\ GetLastModifiedTime(fileName)
    \/ \E result \in ScanResults, pathName \in ScanRoots, filter \in ScanFilters,
          flags \in ScanFlagSets, recursive \in BOOLEAN :
          lastCall = NoCall /\ ScanDir(result, pathName, filter, flags, recursive)
    \/ \E fileName \in FacadeArchives, priority \in BOOLEAN :
          lastCall = NoCall /\ MountArchive(fileName, priority)
    \/ \E fileName \in FacadeArchives : lastCall = NoCall /\ UnmountArchive(fileName)
    \/ lastCall = NoCall /\ PermitSymLinks
    \/ Return

FacadeSpec == FacadeInit /\ [][FacadeNext]_vars

\* Directories created under registered prefixes of different depth, by a
\* backend that works: the prefixes registered and the paths created.
CreateRegisterInputs == {<<"a">>, <<"a", "/", "c">>}

CreatePaths == {<<"a">>, <<"a", "/", "c">>, <<"a", "/", "c", "/", "a">>, <<"a", "/", "b">>, <<"b", "/", "c">>}

CreateNext ==
    \/ \E pathName \in CreateRegisterInputs : lastCall = NoCall /\ RegisterPath(pathName)
    \/ \E pathName \in CreatePaths : lastCall = NoCall /\ CreateDir(pathName, MaxBackendOk)
    \/ \E pathName \in CreatePaths : lastCall = NoCall /\ DirExists(pathName)
    \/ \E fileName \in CreatePaths : lastCall = NoCall /\ Delete(fileName, MaxBackendOk)
    \/ Return

CreateSpec == FacadeInit /\ [][CreateNext]_vars

\* Mounting and unmounting, from a facade that has mounted nothing.
MountNext ==
    \/ \E fileName \in ArchiveNames, priority \in BOOLEAN :
          lastCall = NoCall /\ MountArchive(fileName, priority)
    \/ \E fileName \in ArchiveNames : lastCall = NoCall /\ UnmountArchive(fileName)
    \/ \E found, mounted, settable \in BOOLEAN : lastCall = NoCall /\ LoadIdentity(found, mounted, settable)
    \/ Return

\* Nothing is mounted; the preference directory holds the archive C.
MountInit ==
    /\ Constructed
    /\ queryPath = <<>>
    /\ fsDirs = {}
    /\ fsFiles = {<< << <<"C">> >>, 9 >>}
    /\ searchPath = <<>>
    /\ writeDir = <<>>
    /\ symLinks = FALSE

MountSpec == MountInit /\ [][MountNext]_vars

\* The worker threads run to the end of ThreadFunction once their blocking
\* call returns, and the host keeps sending E_BEGINFRAME while the facade lives.
LiveSpec ==
    /\ Spec
    /\ \A n \in 1..MaxRequests : WF_vars(Worker(n))
    /\ WF_vars(HandleBeginFrame)
    /\ WF_vars(DrainStep)

-----------------------------------------------------------------------------
(* The async queue: properties *)

QueuedReqs == {asyncExecQueue_[i].req : i \in 1..Len(asyncExecQueue_)}

ReportedReqs == {events[i].req : i \in 1..Len(events)}

AsyncOps == {"SystemCommandAsync", "SystemRunAsync"}

\* C1: every accepted request is reported by at most one AsyncExecFinished
\* event; an event is sent only by the drain of a frame-begin tick, for a
\* queued request whose completed_ is set, carries the id that was returned
\* to the caller, and the request leaves asyncExecQueue_ in that same step.
C1_ReportedOnceByDrain ==
    /\ [](/\ \A i, j \in 1..Len(events) : i # j => events[i].req # events[j].req
          /\ QueuedReqs \cap ReportedReqs = {})
    /\ [][events' # events =>
            /\ mainpc = "drain"
            /\ drainPos \in 1..Len(asyncExecQueue_)
            /\ LET request == asyncExecQueue_[drainPos]
               IN  /\ request.completed_
                   /\ events' = Append(events, events'[Len(events')])
                   /\ events'[Len(events')].req = request.req
                   /\ events'[Len(events')].requestID = accepted[request.req]
                   /\ request.req \notin {asyncExecQueue_'[i].req :
                                             i \in 1..Len(asyncExecQueue_')}]_vars

\* Both requests have been reported, each once, and the tick is over.
C1_Witness ==
    /\ Len(events) = 2
    /\ events[1].req # events[2].req
    /\ mainpc = "idle"

Reported(n) == \E i \in 1..Len(events) : events[i].req = n

\* C2: under LiveSpec (every worker runs on once its blocking call returns,
\* ticks keep coming while the facade lives) every accepted request is
\* eventually reported and gone from asyncExecQueue_, unless the facade is
\* destroyed first, which ends the ticks.
C2_EventuallyReported ==
    \A n \in 1..MaxRequests :
        (Len(accepted) >= n) ~>
            ((Reported(n) /\ n \notin QueuedReqs) \/ mainpc = "destroyed")

\* Everything accepted has been reported and the queue is empty again.
C2_Witness ==
    /\ Len(accepted) = MaxRequests
    /\ \A n \in 1..MaxRequests : Reported(n)
    /\ asyncExecQueue_ = <<>>
    /\ mainpc # "destroyed"

\* C3: fewer than M_MAX_UNSIGNED - 1 accepted calls return pairwise different
\* ids, and no two AsyncExecFinished events carry the same id.
C3_IdsUnique ==
    Len(accepted) < M_MAX_UNSIGNED - 1 =>
        /\ \A i, j \in 1..Len(accepted) : i # j => accepted[i] # accepted[j]
        /\ \A i, j \in 1..Len(events) : i # j => events[i].requestID # events[j].requestID

\* The id counter after one more accepted request.
NextId(id) ==
    IF (id + 1) % (2 ^ IdBits) = M_MAX_UNSIGNED THEN 1 ELSE (id + 1) % (2 ^ IdBits)

\* C4: an accepted request's id is neither 0 nor M_MAX_UNSIGNED, and accepting
\* it advances the id counter by one, wrapping to 1 before M_MAX_UNSIGNED.
C4_IdValidAndAdvances ==
    [][Len(accepted') > Len(accepted) =>
          /\ accepted'[Len(accepted')] \notin {0, M_MAX_UNSIGNED}
          /\ nextAsyncExecID_' = NextId(nextAsyncExecID_)]_vars

\* C5: while allowedPaths_ is non-empty an async call returns M_MAX_UNSIGNED,
\* starts no worker and leaves the queue, the id counter and the events as
\* they are; no request is accepted, so none is ever reported for the call.
C5_AsyncRefusedWhenGated ==
    /\ [][(allowedPaths_ # {} /\ lastCall' # lastCall /\ lastCall'.op \in AsyncOps) =>
            /\ lastCall'.ret = M_MAX_UNSIGNED
            /\ lastCall'.ext = <<>>
            /\ UNCHANGED <<asyncExecQueue_, nextAsyncExecID_, accepted, events>>]_vars
    /\ [][allowedPaths_ # {} =>
            /\ accepted' = accepted
            /\ nextAsyncExecID_' = nextAsyncExecID_
            /\ {asyncExecQueue_'[i].req : i \in 1..Len(asyncExecQueue_')} \subseteq QueuedReqs]_vars
    /\ [](ReportedReqs \subseteq 1..Len(accepted))

\* A refused SystemRunAsync, made while an earlier request is still queued.
C5_Witness ==
    /\ allowedPaths_ # {}
    /\ lastCall.op = "SystemRunAsync"
    /\ lastCall.ret = M_MAX_UNSIGNED
    /\ asyncExecQueue_ # <<>>

-----------------------------------------------------------------------------
(* The access gate: properties *)

SyncOps == {"SystemCommand", "SystemRun"}

\* C6: with allowedPaths_ non-empty SystemCommand and SystemRun return -1 and
\* execute nothing; with allowedPaths_ empty they execute the command once and
\* return what it returned (its exit code, or -1 when the spawn failed).
C6_SyncCommandGated ==
    lastCall.op \in SyncOps =>
        IF allowedPaths_ # {}
        THEN lastCall.ret = -1 /\ lastCall.ext = <<>>
        ELSE /\ Len(lastCall.ext) = 1
             /\ lastCall.ext[1].fn = "exec"
             /\ lastCall.ret = lastCall.ext[1].ret
             /\ lastCall.ret \in ExitCodes

\* SystemRun refused under a non-empty allowedPaths_.
C6_Witness ==
    /\ lastCall.op = "SystemRun"
    /\ allowedPaths_ # {}
    /\ lastCall.ret = -1
    /\ lastCall.ext = <<>>

\* s begins with the non-empty string q.
BeginsWith(s, q) == Len(q) > 0 /\ Len(q) <= Len(s) /\ SubSeq(s, 1, Len(q)) = q

DotDot == <<".", ".">>

HasDotDotSegment(pathName) ==
    \E i \in 1..Len(Segments(AddTrailingSlash(pathName))) :
        Segments(AddTrailingSlash(pathName))[i] = DotDot

\* C7 as amended: CheckAccess(p) is true for every p when allowedPaths_ is
\* empty; otherwise it is true iff AddTrailingSlash(p) does not contain the
\* substring ".." and begins with a non-empty element of allowedPaths_.
C7_CheckAccessSubstring ==
    lastCall.op = "CheckAccess" =>
        LET fixedPath == AddTrailingSlash(lastCall.args[1])
        IN  lastCall.ok =
                (\/ allowedPaths_ = {}
                 \/ /\ \A i \in 1..(Len(fixedPath) - 1) :
                           ~(fixedPath[i] = "." /\ fixedPath[i + 1] = ".")
                    /\ \E q \in allowedPaths_ : BeginsWith(fixedPath, q))

\* C7 as claimed: with allowedPaths_ non-empty CheckAccess(p) is true iff p
\* has no ".." segment and p, with a trailing slash added, begins with a
\* registered prefix.
C7_CheckAccessSegment ==
    lastCall.op = "CheckAccess" =>
        lastCall.ok =
            (\/ allowedPaths_ = {}
             \/ /\ ~HasDotDotSegment(lastCall.args[1])
                /\ \E q \in allowedPaths_ :
                       BeginsWith(AddTrailingSlash(lastCall.args[1]), q))

\* A path under a registered prefix, with ".." inside a name but no ".."
\* segment, is refused.
C7_Witness ==
    /\ lastCall.op = "CheckAccess"
    /\ allowedPaths_ # {}
    /\ ~lastCall.ok
    /\ Contains(lastCall.args[1], DotDot)
    /\ ~HasDotDotSegment(lastCall.args[1])
    /\ \E q \in allowedPaths_ : BeginsWith(AddTrailingSlash(lastCall.args[1]), q)

-----------------------------------------------------------------------------
(* The gated file operations: properties *)

GatedOps ==
    {"CreateDir", "Copy", "Rename", "Delete", "FileExists", "DirExists",
     "GetLastModifiedTime", "ScanDir"}

\* The path arguments of a recorded call (ScanDir's second argument is its filter).
PathArgs(call) ==
    IF call.op \in {"Copy", "Rename"} THEN {call.args[1], call.args[2]}
    ELSE {call.args[1]}

\* The call came back with its failure value: false, 0, no entries.
Refused(call) == ~call.ok /\ call.ret = 0 /\ call.out = <<>>

\* pathName lies under a registered prefix.
Under(allowedPaths, pathName) ==
    \E q \in allowedPaths : BeginsWith(AddTrailingSlash(pathName), q)

\* C8: while allowedPaths_ is non-empty, a gated operation called with a path
\* that contains ".." returns its failure value and hands no path with ".."
\* to the backend.
C8_DotDotRefused ==
    (/\ allowedPaths_ # {}
     /\ lastCall.op \in GatedOps
     /\ \E pathName \in PathArgs(lastCall) : Contains(pathName, DotDot)) =>
        /\ Refused(lastCall)
        /\ \A i \in 1..Len(lastCall.ext) : ~Contains(lastCall.ext[i].arg, DotDot)

\* C9: with allowedPaths_ non-empty, a gated operation called with a path that
\* lies under no registered prefix returns its failure value (false, 0, no
\* entries), makes no call to the backend and leaves the backend as it was.
C9_OutsideRefused ==
    [][(/\ lastCall = NoCall
        /\ allowedPaths_ # {}
        /\ lastCall'.op \in GatedOps
        /\ \E pathName \in PathArgs(lastCall') : ~Under(allowedPaths_, pathName)) =>
          /\ Refused(lastCall')
          /\ lastCall'.ext = <<>>
          /\ UNCHANGED <<fsDirs, fsFiles>>]_vars

\* Delete of the file b, which exists and lies outside the registered
\* directory, was refused and b is still there.
C9_Witness ==
    /\ allowedPaths_ # {}
    /\ lastCall.op = "Delete"
    /\ lastCall.args[1] = <<"b">>
    /\ ~Under(allowedPaths_, lastCall.args[1])
    /\ ~lastCall.ok
    /\ lastCall.ext = <<>>
    /\ BackendKey(lastCall.args[1]) \in FileKeys(fsFiles)

-----------------------------------------------------------------------------
(* The access gate under registration: properties *)

\* C10 as amended: once allowedPaths_ is non-empty, a path the gate allows
\* stays allowed whatever is registered next; by induction over RegisterPath
\* calls, under every larger set.
C10_WideningKeepsAccess ==
    [][(allowedPaths_ # {} /\ lastCall.op = "CheckAccess" /\ lastCall.ok) =>
          /\ allowedPaths_ \subseteq allowedPaths_'
          /\ CheckAccess(allowedPaths_', lastCall.args[1])]_vars

\* C10 as claimed: for every set, the empty one included, a path the gate
\* allows stays allowed whatever is registered next.
C10_WideningKeepsAccessAlways ==
    [][(lastCall.op = "CheckAccess" /\ lastCall.ok) =>
          /\ allowedPaths_ \subseteq allowedPaths_'
          /\ CheckAccess(allowedPaths_', lastCall.args[1])]_vars

\* A path allowed through one registered prefix and not through another: it
\* was allowed under the smaller set and is allowed under the wider one.
C10_Witness ==
    /\ lastCall.op = "CheckAccess"
    /\ lastCall.ok
    /\ \E q1, q2 \in allowedPaths_ :
          /\ BeginsWith(AddTrailingSlash(lastCall.args[1]), q1)
          /\ q2 # <<>>
          /\ ~BeginsWith(AddTrailingSlash(lastCall.args[1]), q2)

\* C11: every element of allowedPaths_ is a non-empty prefix that ends with a
\* slash, and a RegisterPath call with an empty input leaves the set unchanged.
C11_AllowedPathsWellFormed ==
    /\ [](\A q \in allowedPaths_ : q # <<>> /\ q[Len(q)] = "/")
    /\ [][(lastCall'.op = "RegisterPath" /\ lastCall'.args[1] = <<>>) =>
             allowedPaths_' = allowedPaths_]_vars

-----------------------------------------------------------------------------
(* Mounting: properties *)

\* The real path a recorded MountArchive or UnmountArchive handed to the backend.
RealOf(call) == call.ext[1].arg

VirtualNames == {<<"f">>, <<"C">>, <<"a", "/", "c">>}

\* C12 as amended: a successful MountArchive passes append = 0 exactly when
\* its priority argument is false; an archive that was not mounted is then
\* placed first, and every file it holds reads from it, and with append it is
\* placed last and changes no read that resolved before; a successful
\* MountArchive of an archive that is mounted already leaves the search path as
\* it is.  A successful UnmountArchive removes the archive and keeps the order
\* of the others, so that unmounting the first mount makes every read resolve
\* as it does over the rest.
C12_MountOrder ==
    /\ [](\A i, j \in 1..Len(searchPath) : i # j => searchPath[i] # searchPath[j])
    /\ [][(lastCall = NoCall /\ lastCall'.op = "MountArchive" /\ lastCall'.ok) =>
            LET real == RealOf(lastCall')
            IN  /\ (lastCall'.ext[1].fn = "mount") = (lastCall'.flags = 0)
                /\ IF InPath(searchPath, real) THEN searchPath' = searchPath
                   ELSE IF lastCall'.flags = 0
                   THEN /\ searchPath' = <<real>> \o searchPath
                        /\ \A h \in Holds(real) :
                              ReadKey(searchPath', fsDirs, fsFiles, h[1]) = h[2]
                   ELSE /\ searchPath' = Append(searchPath, real)
                        /\ \A name \in VirtualNames :
                              ReadOf(searchPath, name) # 0 =>
                                  ReadOf(searchPath', name) = ReadOf(searchPath, name)]_vars
    /\ [][(lastCall = NoCall /\ lastCall'.op = "UnmountArchive" /\ lastCall'.ok) =>
            LET real == RealOf(lastCall')
            IN  /\ InPath(searchPath, real)
                /\ ~InPath(searchPath', real)
                /\ searchPath' = SelectSeq(searchPath, LAMBDA m : m # real)
                /\ searchPath[1] = real =>
                      \A name \in VirtualNames :
                          ReadOf(searchPath', name) = ReadOf(Tail(searchPath), name)]_vars

\* C12 as claimed: every successful MountArchive that passes append = 0 puts
\* its archive first, so that every file it holds reads from it, and one that
\* passes append puts it last.
C12_MountOrderAlways ==
    [][(lastCall = NoCall /\ lastCall'.op = "MountArchive" /\ lastCall'.ok) =>
          LET real == RealOf(lastCall')
          IN  IF lastCall'.ext[1].fn = "mount"
              THEN /\ searchPath'[1] = real
                   /\ \A h \in Holds(real) :
                         ReadKey(searchPath', fsDirs, fsFiles, h[1]) = h[2]
              ELSE searchPath'[Len(searchPath')] = real]_vars

\* /B was mounted without append over /A, and f reads from /B.
C12_Witness ==
    /\ lastCall.op = "MountArchive"
    /\ lastCall.ok
    /\ lastCall.flags = 0
    /\ searchPath = << <<"/", "B">>, <<"/", "A">> >>
    /\ ReadOf(searchPath, <<"f">>) = 2
    /\ ReadOf(Tail(searchPath), <<"f">>) = 1

\* C13: if a write directory is set, it is the first element of the search
\* path.
C13_WriteDirFirst ==
    writeDir # <<>> => (searchPath # <<>> /\ searchPath[1] = writeDir)

-----------------------------------------------------------------------------
(* The file operations: properties *)

\* C14: write visibility: immediately after CreateDir(p) returns true,
\* DirExists(p) returns true.
C14_CreatedDirVisible ==
    [][(lastCall'.op = "CreateDir" /\ lastCall'.ok) =>
           DirExistsRun(allowedPaths_', fsDirs', fsFiles', lastCall'.args[1]).ok]_vars

\* The ancestors CreateDir's recursion visits: the parent paths of pathName
\* that are longer than one character.
RECURSIVE AncestorPaths(_)
AncestorPaths(pathName) ==
    IF Len(GetParentPath(pathName)) > 1
    THEN {GetParentPath(pathName)} \cup AncestorPaths(GetParentPath(pathName))
    ELSE {}

\* The path CreateDir hands to PHYSFS_mkdir for pathName.
MkdirPath(pathName) == GetNativePath(RemoveTrailingSlash(pathName))

MkdirCalls(call) == {i \in 1..Len(call.ext) : call.ext[i].fn = "mkdir"}

\* C15: after CreateDir(p) returns true every ancestor of p with a path
\* longer than one character is a directory of the write directory (and is
\* seen by DirExists when the write directory heads the search path); a
\* second CreateDir(p) returns true, while the backend works, and leaves the
\* set of directories unchanged; when the mkdir of an ancestor fails,
\* CreateDir(p) returns false and makes no mkdir call for p.
C15_CreateDirIdempotent ==
    [][lastCall'.op = "CreateDir" =>
          /\ lastCall'.ok =>
                /\ \A q \in AncestorPaths(lastCall'.args[1]) :
                      /\ BackendKey(MkdirPath(q)) \in fsDirs'
                      /\ searchPath[1] = writeDir =>
                            DirExistsRun(allowedPaths_', fsDirs', fsFiles', q).ok
                /\ \A budget \in Budgets \ {0} :
                      \A again \in {CreateDirRun(allowedPaths_', fsDirs', fsFiles',
                                                 lastCall'.args[1], budget)} :
                          again.ok /\ again.dirs = fsDirs'
          /\ \A i \in MkdirCalls(lastCall') :
                lastCall'.ext[i].ret = 0 => (~lastCall'.ok /\ i = Len(lastCall'.ext))
          /\ \A i \in MkdirCalls(lastCall') :
                (lastCall'.ext[i].ret = 0 /\ lastCall'.ext[i].arg # MkdirPath(lastCall'.args[1])) =>
                    /\ ~lastCall'.ok
                    /\ \A j \in MkdirCalls(lastCall') :
                          lastCall'.ext[j].arg # MkdirPath(lastCall'.args[1])]_vars

\* C15 witness: CreateDir returned true after creating the missing parent,
\* with two mkdir calls.
C15_Witness ==
    /\ lastCall.op = "CreateDir"
    /\ lastCall.ok
    /\ AncestorPaths(lastCall.args[1]) # {}
    /\ Cardinality(MkdirCalls(lastCall)) = 2

\* Whether a call made the backend remove an entry.
BackendRemoved(call) ==
    \E i \in 1..Len(call.ext) : call.ext[i].fn = "delete" /\ call.ext[i].ret = 1

\* C16: Delete(path) returns true iff access is allowed and the backend
\* removed the file or empty directory, and returns false, leaving the file
\* in place, when access is denied or the backend delete fails.
C16_DeleteReturnsRemoved ==
    [][lastCall'.op = "Delete" =>
          /\ lastCall'.ok <=>
                (CheckAccess(allowedPaths_, GetPath(lastCall'.args[1])) /\ BackendRemoved(lastCall'))
          /\ ~lastCall'.ok => (fsDirs' = fsDirs /\ fsFiles' = fsFiles)]_vars

\* Whether a call's copy wrote the whole source to the destination.
CopySucceeded(call) ==
    \E i \in 1..Len(call.ext) : call.ext[i].fn = "write" /\ call.ext[i].ret = 1

\* C17: Rename(src, dst) returns true iff the copy succeeded and src was then
\* removed; after a true return dst holds the former contents of src and src
\* no longer exists; if the copy fails, src is not deleted and Rename returns
\* false.
C17_RenameMoves ==
    [][lastCall'.op = "Rename" =>
          /\ lastCall'.ok <=> (CopySucceeded(lastCall') /\ BackendRemoved(lastCall'))
          /\ lastCall'.ok =>
                /\ ReadKey(searchPath, fsDirs', fsFiles', BackendKey(lastCall'.args[2]))
                       = ReadKey(searchPath, fsDirs, fsFiles, BackendKey(lastCall'.args[1]))
                /\ BackendStat(fsDirs', fsFiles', lastCall'.args[1]) = "none"
          /\ ~CopySucceeded(lastCall') =>
                /\ ~lastCall'.ok
                /\ \A i \in 1..Len(lastCall'.ext) : lastCall'.ext[i].fn # "delete"]_vars

\* What the write directory holds in the file key, 0 when it has no such file.
WrittenContent(files, key) == IF key \in FileKeys(files) THEN ContentOf(files, key) ELSE 0

\* C18: Copy(src, dst) returns true only if the bytes read and the bytes
\* written both equal the size of src, and then the file written for dst
\* holds the contents of src (which a read of dst yields when the write
\* directory heads the search path); when src cannot be opened for reading
\* Copy returns false without opening dst.
C18_CopyConservation ==
    [][lastCall'.op = "Copy" =>
          /\ lastCall'.ok =>
                /\ CopySucceeded(lastCall')
                /\ WrittenContent(fsFiles', BackendKey(lastCall'.args[2]))
                       = ReadKey(searchPath, fsDirs, fsFiles, BackendKey(lastCall'.args[1]))
                /\ ReadKey(searchPath, fsDirs', fsFiles', BackendKey(lastCall'.args[1]))
                       = ReadKey(searchPath, fsDirs, fsFiles, BackendKey(lastCall'.args[1]))
                /\ searchPath[1] = writeDir =>
                      ReadKey(searchPath, fsDirs', fsFiles', BackendKey(lastCall'.args[2]))
                          = ReadKey(searchPath, fsDirs', fsFiles', BackendKey(lastCall'.args[1]))
          /\ ~OpenReadOk(fsDirs, fsFiles, lastCall'.args[1]) =>
                /\ ~lastCall'.ok
                /\ fsFiles' = fsFiles
                /\ \A i \in 1..Len(lastCall'.ext) : lastCall'.ext[i].fn # "openWrite"]_vars

\* C18 witness: a Copy between two different files returned true and the
\* destination holds the source's non-empty contents.
C18_Witness ==
    /\ lastCall.op = "Copy"
    /\ lastCall.ok
    /\ BackendKey(lastCall.args[1]) # BackendKey(lastCall.args[2])
    /\ WrittenContent(fsFiles, BackendKey(lastCall.args[2])) # 0
    /\ WrittenContent(fsFiles, BackendKey(lastCall.args[2]))
           = ReadKey(searchPath, fsDirs, fsFiles, BackendKey(lastCall.args[1]))

-----------------------------------------------------------------------------
(* ScanDir: properties *)

\* The backend calls of a ScanDir call: the stat of an entry, the
\* enumeration of a directory.
StatCalls(call) == {i \in 1..Len(call.ext) : call.ext[i].fn = "stat"}

EnumerateCalls(call) == {i \in 1..Len(call.ext) : call.ext[i].fn = "enumerate"}

\* The type the backend reports for the entry key.
StatKey(key) ==
    StatAt(searchPath, fsDirs, fsFiles, key, FirstHolder(searchPath, fsDirs, fsFiles, key))

\* The name of the entry key, and whether it is hidden.
NameOf(key) == key[Len(key)]

Hidden(key) == NameOf(key)[1] = "."

\* Whether the call returned the entry key, as its path below the directory
\* that was scanned.
Emitted(call, key) ==
    \E j \in 1..Len(call.out) :
        Segments(call.args[1]) \o Segments(call.out[j]) = key

Descended(call, key) == \E e \in EnumerateCalls(call) : Segments(call.ext[e].arg) = key

\* Whether the loop made its recursive call for the entry key: the call
\* enumerates the path that the listed directory's path and the name give.
Recursed(call, key) ==
    \E e, below \in EnumerateCalls(call) :
        /\ e < below
        /\ Segments(call.ext[e].arg) \o <<NameOf(key)>> = key
        /\ call.ext[below].arg
               = GetNativePath(AddTrailingSlash(call.ext[e].arg \o NameOf(key)))

\* The filter matches a name: the filter's extension, from its last ".",
\* holds a "*" or is empty, or the name ends with it.
FilterMatches(filter, name) ==
    LET extension == SubstringFrom(filter, FindLast(filter, "."))
    IN  \/ extension = <<>>
        \/ \E i \in 1..Len(extension) : extension[i] = "*"
        \/ /\ Len(name) >= Len(extension)
           /\ SubSeq(name, Len(name) - Len(extension) + 1, Len(name)) = extension

\* The rule for an entry that is not skipped.
EmitRule(call, key) ==
    \/ StatKey(key) = "dir" /\ HasFlag(call.flags, SCAN_DIRS)
    \/ /\ StatKey(key) \notin {"dir", "none"}
       /\ HasFlag(call.flags, SCAN_FILES)
       /\ FilterMatches(call.args[2], NameOf(key))

\* The entries the backend enumerates in the directories the call listed.
Enumerated(call) ==
    UNION {{Segments(call.ext[e].arg) \o <<BackendEnumerate(fsDirs, fsFiles, call.ext[e].arg)[n]>> :
               n \in 1..Len(BackendEnumerate(fsDirs, fsFiles, call.ext[e].arg))} :
           e \in EnumerateCalls(call)}

Visited(call) == {Segments(call.ext[i].arg) : i \in StatCalls(call)}

\* C19: without SCAN_HIDDEN, ScanDir returns no entry whose name, or the name
\* of a directory on its path, starts with "." and looks at no such entry;
\* with SCAN_HIDDEN every enumerated entry, hidden or not, is looked at,
\* emitted by the one rule for its type, and the recursive call is made for
\* it iff it is a directory and the scan is recursive.
C19_HiddenSkipped ==
    lastCall.op = "ScanDir" =>
        IF ~HasFlag(lastCall.flags, SCAN_HIDDEN)
        THEN /\ \A j \in 1..Len(lastCall.out) :
                   \A n \in 1..Len(Segments(lastCall.out[j])) :
                       Segments(lastCall.out[j])[n][1] # "."
             /\ \A key \in Visited(lastCall) : ~Hidden(key)
             /\ \A key \in Enumerated(lastCall) : ~Hidden(key) => key \in Visited(lastCall)
        ELSE \A key \in Enumerated(lastCall) :
                 /\ key \in Visited(lastCall)
                 /\ Emitted(lastCall, key) <=> EmitRule(lastCall, key)
                 /\ Recursed(lastCall, key) <=> (StatKey(key) = "dir" /\ lastCall.recursive)

\* C19 witness: a recursive scan with SCAN_HIDDEN returned a hidden file and
\* a file inside a hidden directory.
C19_Witness ==
    /\ lastCall.op = "ScanDir"
    /\ HasFlag(lastCall.flags, SCAN_HIDDEN)
    /\ \E key \in Enumerated(lastCall) :
           Hidden(key) /\ StatKey(key) = "file" /\ Emitted(lastCall, key)
    /\ \E key \in Enumerated(lastCall) :
           Hidden(key) /\ StatKey(key) = "dir" /\ Descended(lastCall, key)

\* C20: an enumerated non-hidden entry is emitted as a file iff it has type
\* REGULAR (or is a SYMLINK), SCAN_FILES is set and the filter matches.
C20_FileRule ==
    lastCall.op = "ScanDir" =>
        \A key \in Visited(lastCall) :
            ~Hidden(key) =>
                ((Emitted(lastCall, key) /\ StatKey(key) # "dir") <=>
                    /\ StatKey(key) \in {"file", "symlink"}
                    /\ HasFlag(lastCall.flags, SCAN_FILES)
                    /\ FilterMatches(lastCall.args[2], NameOf(key)))

\* C20 as amended: an enumerated non-hidden entry is emitted as a file iff
\* its stat succeeds with any type other than DIRECTORY (REGULAR, SYMLINK or
\* OTHER), SCAN_FILES is set and the filter matches.
C20_FileRuleNotDirectory ==
    lastCall.op = "ScanDir" =>
        \A key \in Visited(lastCall) :
            ~Hidden(key) =>
                ((Emitted(lastCall, key) /\ StatKey(key) # "dir") <=>
                    /\ StatKey(key) \notin {"dir", "none"}
                    /\ HasFlag(lastCall.flags, SCAN_FILES)
                    /\ FilterMatches(lastCall.args[2], NameOf(key)))

\* C20 witness: a scan for files with the filter "*.c" returned a file whose
\* name ends with ".c" and the entry of another type c, and left out a file
\* with another ending and one that ends with ".C".
C20_Witness ==
    /\ lastCall.op = "ScanDir"
    /\ lastCall.args[2] = <<"*", ".", "c">>
    /\ lastCall.flags = SCAN_FILES
    /\ Emitted(lastCall, << <<"a", ".", "c">> >>)
    /\ << <<"a", ".", "C">> >> \in Visited(lastCall)
    /\ ~Emitted(lastCall, << <<"a", ".", "C">> >>)
    /\ << <<"f">> >> \in Visited(lastCall)
    /\ ~Emitted(lastCall, << <<"f">> >>)
    /\ \E key \in Visited(lastCall) : StatKey(key) = "other"

\* A path from its segments, joined with "/".
RECURSIVE JoinPath(_)
JoinPath(key) ==
    IF key = <<>> THEN <<>>
    ELSE IF Len(key) = 1 THEN key[1]
    ELSE key[1] \o <<"/">> \o JoinPath(Tail(key))

\* The key of a returned entry: the scanned directory's, then the entry's own.
OutKey(call, j) == Segments(call.args[1]) \o Segments(call.out[j])

IsProperPrefix(s, t) == Len(s) < Len(t) /\ SubSeq(t, 1, Len(s)) = s

\* C21: the result holds nothing from before the call; a directory entry is
\* emitted iff SCAN_DIRS is set, whatever the filter, and is descended iff
\* recursive is true, so that a scan that is not recursive returns first-level
\* entries only; every returned entry is the path, relative to the start
\* path, of an entry the scan looked at; a directory comes before its
\* descendants.
C21_DirectoryRule ==
    lastCall.op = "ScanDir" =>
        /\ \A j \in 1..Len(lastCall.out) :
               \A result \in ScanResults : \A i \in 1..Len(result) : lastCall.out[j] # result[i]
        /\ \A key \in Visited(lastCall) :
               StatKey(key) = "dir" =>
                   /\ Emitted(lastCall, key) <=> HasFlag(lastCall.flags, SCAN_DIRS)
                   /\ Descended(lastCall, key) <=> lastCall.recursive
        /\ ~lastCall.recursive =>
               \A j \in 1..Len(lastCall.out) : Len(Segments(lastCall.out[j])) = 1
        /\ \A j \in 1..Len(lastCall.out) :
               /\ OutKey(lastCall, j) \in Visited(lastCall)
               /\ lastCall.out[j] = JoinPath(Segments(lastCall.out[j]))
        /\ \A j, k \in 1..Len(lastCall.out) :
               IsProperPrefix(Segments(lastCall.out[j]), Segments(lastCall.out[k])) => j < k

-----------------------------------------------------------------------------
(* Existence queries: properties *)

\* C22: when the gate lets the call through, FileExists(p) is true iff the
\* backend stat of p succeeds with type REGULAR or SYMLINK, and DirExists(p)
\* is true iff the stat of p without its trailing slash succeeds with type
\* DIRECTORY or SYMLINK; a failed stat yields false for both.
C22_ExistsByType ==
    /\ (lastCall.op = "FileExists" /\ CheckAccess(allowedPaths_, GetPath(lastCall.args[1]))) =>
           /\ lastCall.ok <=>
                  BackendStat(fsDirs, fsFiles, lastCall.args[1]) \in {"file", "symlink"}
           /\ lastCall.ext = <<Ext("stat", lastCall.args[1],
                                   Flag(BackendStat(fsDirs, fsFiles, lastCall.args[1]) # "none"))>>
    /\ (lastCall.op = "DirExists" /\ CheckAccess(allowedPaths_, lastCall.args[1])) =>
           /\ lastCall.ok <=>
                  BackendStat(fsDirs, fsFiles, RemoveTrailingSlash(lastCall.args[1]))
                      \in {"dir", "symlink"}
           /\ lastCall.ext = <<Ext("stat", RemoveTrailingSlash(lastCall.args[1]),
                                   Flag(BackendStat(fsDirs, fsFiles,
                                                    RemoveTrailingSlash(lastCall.args[1])) # "none"))>>
    /\ lastCall.op \in {"FileExists", "DirExists"} =>
           \A i \in 1..Len(lastCall.ext) : lastCall.ext[i].ret = 0 => ~lastCall.ok

\* C22 witness: FileExists returned true for a symbolic link.
C22_Witness ==
    /\ lastCall.op = "FileExists"
    /\ lastCall.ok
    /\ BackendStat(fsDirs, fsFiles, lastCall.args[1]) = "symlink"

-----------------------------------------------------------------------------
(* Path utilities: properties *)

\* C23: path idempotence: for every path p, GetInternalPath, AddTrailingSlash
\* and RemoveTrailingSlash applied twice give what they give applied once.
C23_PathIdempotence ==
    /\ GetInternalPath(GetInternalPath(queryPath)) = GetInternalPath(queryPath)
    /\ AddTrailingSlash(AddTrailingSlash(queryPath)) = AddTrailingSlash(queryPath)
    /\ RemoveTrailingSlash(RemoveTrailingSlash(queryPath)) = RemoveTrailingSlash(queryPath)

\* C24: on a Unix-family host GetTemporaryDir returns a path that ends with
\* "/", whatever TMPDIR holds and also when it is unset.
C24_TemporaryDirSlashTerminated ==
    lastCall.op = "GetTemporaryDir" =>
        /\ lastCall.out[1] # <<>>
        /\ lastCall.out[1][Len(lastCall.out[1])] = "/"

------------------------------------------------------------------------------
(* The console bridge: properties *)

\* The step is a ConsoleCommand event.
ConsoleEvent == lastCall'.op = "ConsoleCommand" /\ lastCall' # lastCall

\* The step is a call of SetExecuteConsoleCommands.
ConsoleSwitch == lastCall'.op = "SetExecuteConsoleCommands" /\ lastCall' # lastCall

\* C25: a ConsoleCommand event makes the facade call SystemCommand(command,
\* true) exactly when console execution is enabled and the event's id is the
\* facade's type name, so nothing is executed while it is disabled; and
\* SetExecuteConsoleCommands with the current value changes nothing.
C25_ConsoleBridge ==
    [][/\ ConsoleEvent =>
            /\ lastCall'.ok <=> (executeConsoleCommands_ /\ lastCall'.args[1] = TypeName)
            /\ lastCall'.ok => lastCall'.out = <<lastCall'.args[2]>> /\ lastCall'.flags = 1
            /\ ~lastCall'.ok => lastCall'.ext = <<>>
            /\ UNCHANGED consoleVars
       /\ ConsoleSwitch =>
            /\ executeConsoleCommands_' = (lastCall'.flags = 1)
            /\ lastCall'.flags = Flag(executeConsoleCommands_) => UNCHANGED <<allowedPaths_, consoleVars, asyncVars, fsVars>>]_vars

\* A command addressed to the facade arrived while console execution was
\* disabled, and nothing was called.
C25_Witness ==
    /\ lastCall.op = "ConsoleCommand"
    /\ lastCall.args[1] = TypeName
    /\ ~executeConsoleCommands_
    /\ ~lastCall.ok

------------------------------------------------------------------------------
(* The drain tick and the destructor: properties *)

\* The serial numbers of the requests of a sequence, in its order.
ReqsOf(q) == [i \in 1..Len(q) |-> q[i].req]

Increasing(seq) == \A i, j \in 1..Len(seq) : i < j => seq[i] < seq[j]

\* The requests the latest tick found completed, and those it passed over.
FrameEmitted == ReqsOf(SelectSeq(frameSampled, LAMBDA s : s.completed))

FramePassed == ReqsOf(SelectSeq(frameSampled, LAMBDA s : ~s.completed))

\* The requests of the last k events sent.
LastEvents(k) == ReqsOf(SubSeq(events, Len(events) - k + 1, Len(events)))

\* The main thread reads the next request of the queue in this step.
FrameSamples == mainpc = "drain" /\ frameSampled' # frameSampled

\* C26: a frame-begin tick never waits; it reads each queued request once, in
\* queue (submission) order, sends an event for exactly those whose completed_
\* it reads as set, in that order, and leaves the others queued in the order
\* they had; a request read as not completed changes neither events nor queue.
C26_TickSamplesInOrder ==
    /\ [](/\ Increasing(ReqsOf(asyncExecQueue_))
          /\ Increasing(ReqsOf(frameSampled))
          /\ Len(FrameEmitted) <= Len(events)
          /\ LastEvents(Len(FrameEmitted)) = FrameEmitted
          /\ mainpc = "drain" =>
                /\ ENABLED DrainStep
                /\ drainPos \in 1..(Len(asyncExecQueue_) + 1)
                /\ ReqsOf(SubSeq(asyncExecQueue_, 1, drainPos - 1)) = FramePassed)
    /\ [][FrameSamples =>
            LET request == asyncExecQueue_[drainPos]
            IN  /\ frameSampled' = Append(frameSampled, [req |-> request.req, completed |-> request.completed_])
                /\ IF request.completed_
                   THEN /\ events' = Append(events, [req |-> request.req, requestID |-> request.requestID_, exitCode |-> request.exitCode_])
                        /\ asyncExecQueue_' = RemoveAt(asyncExecQueue_, drainPos)
                   ELSE UNCHANGED <<events, asyncExecQueue_>>]_vars
    /\ [][(mainpc = "drain" /\ mainpc' = "idle") =>
            /\ ReqsOf(asyncExecQueue_') = FramePassed
            /\ UNCHANGED <<events, asyncExecQueue_>>]_vars

\* A tick is over that read two requests: it passed over the first, which was
\* not completed and is still queued, and reported the second.
C26_Witness ==
    /\ mainpc = "idle"
    /\ Len(frameSampled) = 2
    /\ ~frameSampled[1].completed /\ frameSampled[2].completed
    /\ ReqsOf(asyncExecQueue_) = <<frameSampled[1].req>>
    /\ events # <<>> /\ events[Len(events)].req = frameSampled[2].req

Removes == \E n \in QueuedReqs : n \notin {asyncExecQueue_'[i].req : i \in 1..Len(asyncExecQueue_')}

\* C28: the destructor empties asyncExecQueue_ and sends no event, whether
\* the requests it deletes were completed or not, and no event follows it;
\* apart from the destructor only a turn of the drain tick takes a request
\* out of the queue, and only the completed request under its iterator.
C28_DestructorDeletesSilently ==
    /\ [](mainpc = "destroyed" => asyncExecQueue_ = <<>>)
    /\ [][(mainpc' = "destroyed" \/ mainpc = "destroyed") => events' = events]_vars
    /\ [][Removes =>
            \/ mainpc = "idle" /\ mainpc' = "destroyed"
            \/ /\ mainpc = "drain" /\ mainpc' = "drain"
               /\ drainPos \in 1..Len(asyncExecQueue_)
               /\ asyncExecQueue_[drainPos].completed_
               /\ asyncExecQueue_' = RemoveAt(asyncExecQueue_, drainPos)]_vars

\* The facade is destroyed with every request accepted, one of them reported
\* by an earlier tick and the other, passed over by that tick, never reported.
C28_Witness ==
    /\ mainpc = "destroyed"
    /\ asyncExecQueue_ = <<>>
    /\ Len(accepted) = MaxRequests
    /\ Len(events) = MaxRequests - 1
    /\ \E i \in 1..Len(frameSampled) : ~frameSampled[i].completed /\ ~Reported(frameSampled[i].req)

------------------------------------------------------------------------------
(* Mounting: failure and symmetry *)

\* The step is a call of MountArchive or of UnmountArchive.
MountCall == lastCall = NoCall /\ lastCall'.op \in {"MountArchive", "UnmountArchive"}

\* C29: MountArchive returns false exactly when the backend cannot read the
\* real path, UnmountArchive returns false exactly when the real path is not
\* mounted, and a call that returns false leaves the search path and the
\* write directory as they were.
C29_FailedMountChangesNothing ==
    [][MountCall =>
          /\ lastCall'.op = "MountArchive" => (lastCall'.ok <=> Mountable(RealOf(lastCall')))
          /\ lastCall'.op = "UnmountArchive" => (lastCall'.ok <=> InPath(searchPath, RealOf(lastCall')))
          /\ ~lastCall'.ok => UNCHANGED <<searchPath, writeDir>>]_vars

\* A mount was refused while something was mounted and a write directory set.
C29_Witness ==
    /\ lastCall.op = "MountArchive"
    /\ ~lastCall.ok
    /\ searchPath # <<>>
    /\ writeDir # <<>>

\* The step is a MountArchive that returns true and adds an entry to the
\* search path.
MountAdds == lastCall = NoCall /\ lastCall'.op = "MountArchive" /\ lastCall'.ok /\ searchPath' # searchPath

\* C30: after a MountArchive(f) that returned true and added an entry to the
\* search path, an UnmountArchive(f) made next hands the same real path to
\* the backend, returns true and leaves the search path as it was before the
\* mount, for absolute and for relative f.
C30_UnmountUndoesMount ==
    [][MountAdds =>
          /\ UnmountArchiveRun(searchPath', lastCall'.args[1]).real = RealOf(lastCall')
          /\ UnmountArchiveRun(searchPath', lastCall'.args[1]).ok
          /\ UnmountArchiveRun(searchPath', lastCall'.args[1]).path = searchPath]_vars

------------------------------------------------------------------------------
(* CreateDir: the parent recursion *)

\* The paths CreateDir(path) can recurse on: the non-empty prefixes of path.
PrefixesOf(path) == {SubSeq(path, 1, n) : n \in 1..Len(path)}

\* The number of nested calls CreateDir(path) makes at most: the case in
\* which the gate allows every parent and no parent exists.
RECURSIVE CreateDirDepth(_)
CreateDirDepth(path) ==
    IF Len(GetParentPath(path)) > 1 THEN 1 + CreateDirDepth(GetParentPath(path)) ELSE 0

\* The queries about a parent that a recorded CreateDir made.
ParentQueries(call) == {i \in 1..Len(call.ext) : call.ext[i].fn = "stat"}

\* C31: the parent recursion of CreateDir terminates: a parent path that is
\* longer than one character is a strictly shorter prefix of the path, for
\* the path and for every path the recursion can reach, so the calls nest
\* fewer than Len(path) deep, whatever slashes, backslashes or blanks it holds.
C31_CreateDirRecursionTerminates ==
    /\ \A p \in PrefixesOf(queryPath) :
          Len(GetParentPath(p)) > 1 =>
              /\ Len(GetParentPath(p)) < Len(p)
              /\ GetParentPath(p) \in PrefixesOf(p)
    /\ CreateDirDepth(queryPath) < Len(queryPath) \/ queryPath = <<>>
    /\ lastCall.op = "CreateDir" =>
          /\ Cardinality(ParentQueries(lastCall)) <= CreateDirDepth(lastCall.args[1])
          /\ Len(lastCall.ext) <= 2 * CreateDirDepth(lastCall.args[1]) + 1

\* CreateDir of a path with a doubled slash has recursed twice: on "a//" and
\* from there on "a/".
C31_Witness ==
    /\ lastCall.op = "CreateDir"
    /\ lastCall.args[1] = <<"a", "/", "/", "a">>
    /\ Cardinality(ParentQueries(lastCall)) = 2

------------------------------------------------------------------------------
(* The async queue: conservation *)

\* C32: while the facade lives, the async calls accepted so far are as many
\* as the AsyncExecFinished events sent plus the requests in asyncExecQueue_:
\* every accepted request is either queued or reported, never both and never
\* neither; and the worker of every queued request has been started.
C32_QueueConservation ==
    mainpc # "destroyed" =>
        /\ Len(accepted) = Len(events) + Len(asyncExecQueue_)
        /\ QueuedReqs \cup ReportedReqs = 1..Len(accepted)
        /\ QueuedReqs \cap ReportedReqs = {}
        /\ \A i \in 1..Len(asyncExecQueue_) : asyncExecQueue_[i].wpc \in {"running", "returned"}

\* In the middle of a tick one request has been reported and another, whose
\* command is still running, is queued.
C32_Witness ==
    /\ mainpc = "drain"
    /\ Len(accepted) = 2
    /\ Len(events) = 1
    /\ Len(asyncExecQueue_) = 1
    /\ asyncExecQueue_[1].wpc = "running"

------------------------------------------------------------------------------
(* LoadIdentity *)

\* C33: a LoadIdentity that returns false leaves the search path and the
\* write directory as they were; one that returns true leaves the preference
\* directory in the search path and as the write directory.
C33_LoadIdentityAllOrNothing ==
    [][(lastCall = NoCall /\ lastCall'.op = "LoadIdentity") =>
          /\ ~lastCall'.ok => UNCHANGED <<searchPath, writeDir>>
          /\ lastCall'.ok => InPath(searchPath', PrefDir) /\ writeDir' = PrefDir]_vars

------------------------------------------------------------------------------
(* CreateDir under registered prefixes *)

\* The directory named by path exists, as the backend reports it.
IsDirectory(path) == BackendStat(fsDirs, fsFiles, GetNativePath(RemoveTrailingSlash(path))) \in {"dir", "symlink"}

\* CreateDir(pathName) is called with paths registered, the gate allows
\* pathName, its parent directory exists and the backend's mkdir would succeed.
AllowedCreation(pathName) ==
    /\ allowedPaths_ # {}
    /\ CheckAccess(allowedPaths_, pathName)
    /\ Len(GetParentPath(pathName)) > 1
    /\ IsDirectory(GetParentPath(pathName))
    /\ BackendMkdirOk(fsDirs, fsFiles, GetNativePath(RemoveTrailingSlash(pathName)), TRUE)

\* C34: with paths registered, CreateDir of a path the gate allows returns
\* true whenever the parent directory exists and the backend's mkdir
\* succeeds, also when the parent lies under no registered prefix.
C34_AllowedCreationSucceeds ==
    [][(lastCall = NoCall /\ lastCall'.op = "CreateDir" /\ AllowedCreation(lastCall'.args[1])) => lastCall'.ok]_vars

=============================================================================
